---- MODULE Spec2Model ----
(***************************************************************************)
(* Model of the parsing core of hurl_core (parser/predicate.rs and         *)
(* parser/string.rs).  The input text is a sequence of one-character       *)
(* strings; every grammar rule is an operator from (input, reader state)   *)
(* to the reader state it leaves and the ParseResult it returns.           *)
(***************************************************************************)
EXTENDS Integers, Sequences, FiniteSets, TLC

\* ------------------------------------------------------------------ bounds
\* longest run of blanks placed in a generated predicate clause
MaxSpaces == 2
\* longest raw text generated over Alphabet
MaxLen == 2

\* the calls of write_report on one file, and the testcases given to a call
MaxCalls == 3
MaxNew == 2

\* the iterations of one loop the model follows
MaxIterations == 48

\* ------------------------------------------------------- reader and results
\* what Reader::read returns at end of input (Option::None)
None == "<none>"

Pos(l, c) == [line |-> l, column |-> c]

\* Reader::new: cursor 0, line 1, column 1
NewState == [cursor |-> 0, pos |-> Pos(1, 1)]

\* Reader::read: one character forward, a line break starts a new line
ReaderRead(s, st) ==
    IF st.cursor >= Len(s)
    THEN [c |-> None, st |-> st]
    ELSE LET c == s[st.cursor + 1] IN
         [c  |-> c,
          st |-> [cursor |-> st.cursor + 1,
                  pos    |-> IF c = "\n"
                             THEN Pos(st.pos.line + 1, 1)
                             ELSE Pos(st.pos.line, st.pos.column + 1)]]

\* the reader once n characters have been read by earlier rules
RECURSIVE ReaderAfter(_, _)
ReaderAfter(s, n) ==
    IF n = 0 THEN NewState ELSE ReaderRead(s, ReaderAfter(s, n - 1)).st

\* Reader::peek_back: the raw text between a saved cursor and the cursor
peek_back(s, st, from) == SubSeq(s, from + 1, st.cursor)

SourceInfo(start, end) == [start |-> start, end |-> end]

Whitespace(value, start, end) == [value |-> value, source_info |-> SourceInfo(start, end)]

Ok(v) == [ok |-> TRUE, val |-> v]

\* Error { pos, recoverable, inner }
Err(pos, recoverable, kind, value) ==
    [ok |-> FALSE, pos |-> pos, recoverable |-> recoverable,
     inner |-> [kind |-> kind, value |-> value]]

IsRecoverable(r) == (~r.ok) /\ r.recoverable
IsFatal(r) == (~r.ok) /\ ~r.recoverable

\* ----------------------------------------------------------- primitives
RECURSIVE literal_loop(_, _, _, _, _)

\* literal once the character to compare with lit[i] has been read: at end
\* of input or on another character the error is anchored at start
literal_step(lit, i, s, start, rd) ==
    IF rd.c # lit[i]
    THEN [st |-> rd.st, r |-> Err(start.pos, FALSE, "Expecting", lit)]
    ELSE literal_loop(lit, i + 1, s, start, rd.st)

literal_loop(lit, i, s, start, st) ==
    IF i > Len(lit) THEN [st |-> st, r |-> Ok(lit)]
    ELSE literal_step(lit, i, s, start, ReaderRead(s, st))

\* literal: strict match, a mismatch is fatal and the reader is left where
\* the mismatch was read
literal(lit, s, st) == literal_loop(lit, 1, s, st, st)

\* a failure m made recoverable, with the reader put back to save
restored(save, m) ==
    IF m.r.ok THEN m
    ELSE [st |-> save, r |-> Err(m.r.pos, TRUE, m.r.inner.kind, m.r.inner.value)]

\* try_literal: speculative match, a mismatch is recoverable and the reader
\* is restored
try_literal(lit, s, st) == restored(st, literal(lit, s, st))

\* try_literals once literal has returned m1 for s1 and m2 for s2, both
\* from start
try_literals_of(s1, s2, start, m1, m2) ==
    IF m1.r.ok THEN [st |-> m1.st, r |-> Ok(s1)]
    ELSE IF m2.r.ok THEN [st |-> m2.st, r |-> Ok(s2)]
    ELSE [st |-> start, r |-> Err(start.pos, TRUE, "Expecting", s1 \o <<" or ">> \o s2)]

\* try_literals: the first of two literals that matches, returned as text
try_literals(s1, s2, s, st) ==
    try_literals_of(s1, s2, st, literal(s1, s, st), literal(s2, s, st))

IsSpace(c) == c \in {" ", "\t"}

\* space once the character has been read
space_of(st, rd) ==
    IF rd.c # None /\ IsSpace(rd.c)
    THEN [st |-> rd.st, r |-> Ok(<<rd.c>>)]
    ELSE [st |-> rd.st, r |-> Err(st.pos, TRUE, "Space", <<>>)]

\* space: one blank or tab; on failure the character read stays consumed
space(s, st) == space_of(st, ReaderRead(s, st))

\* zero_or_more(space, ..): iterate until space fails, then restore the
\* reader to the state before the failed iteration
RECURSIVE zero_or_more_space(_, _)
zero_or_more_space(s, st) ==
    LET m == space(s, st) IN
    IF st.cursor >= Len(s) \/ ~m.r.ok THEN st
    ELSE zero_or_more_space(s, m.st)

\* the Whitespace read from st to end
spaces_of(s, st, end) ==
    [st |-> end,
     r  |-> Ok(Whitespace(peek_back(s, end, st.cursor), st.pos, end.pos))]

zero_or_more_spaces(s, st) == spaces_of(s, st, zero_or_more_space(s, st))

\* one_or_more once the first space has returned
one_or_more_of(s, st, first) ==
    IF ~first.r.ok
    THEN [st |-> first.st, r |-> Err(first.r.pos, FALSE, "Space", <<>>)]
    ELSE spaces_of(s, st, zero_or_more_space(s, first.st))

\* one_or_more(space, ..): zero occurrences is a fatal error
one_or_more_spaces(s, st) == one_or_more_of(s, st, space(s, st))

\* ------------------------------------------------------------ predicate_not
\* predicate_not without the restore of the saved state
predicate_not_no_restore(s, st) ==
    LET save == st
        no_whitespace == Whitespace(<<>>, save.pos, save.pos)
        lit == try_literal(<<"n", "o", "t">>, s, st)
        sp == one_or_more_spaces(s, lit.st) IN
    IF lit.r.ok
    THEN IF sp.r.ok
         THEN [st |-> sp.st, not |-> TRUE, space0 |-> sp.r.val]
         ELSE [st |-> sp.st, not |-> FALSE, space0 |-> no_whitespace]
    ELSE [st |-> lit.st, not |-> FALSE, space0 |-> no_whitespace]

predicate_not(s, st) ==
    LET save == st
        no_whitespace == Whitespace(<<>>, save.pos, save.pos)
        lit == try_literal(<<"n", "o", "t">>, s, st)
        sp == one_or_more_spaces(s, lit.st) IN
    IF lit.r.ok
    THEN IF sp.r.ok
         THEN [st |-> sp.st, not |-> TRUE, space0 |-> sp.r.val]
         ELSE [st |-> save, not |-> FALSE, space0 |-> no_whitespace]
    ELSE [st |-> lit.st, not |-> FALSE, space0 |-> no_whitespace]

\* ------------------------------------------------------------- string.rs
\* the backspace (U+0008), form-feed (U+000C) and backtick (U+0060)
\* characters, which a string of this notation cannot spell
BS == "<U+0008>"
FF == "<U+000C>"
BQ == "<U+0060>"

HexDigits == {"0", "1", "2", "3", "4", "5", "6", "7", "8", "9",
              "a", "b", "c", "d", "e", "f", "A", "B", "C", "D", "E", "F"}

\* char::to_digit(16)
hex_digit_value(c) ==
    CASE c = "0" -> 0 [] c = "1" -> 1 [] c = "2" -> 2 [] c = "3" -> 3
      [] c = "4" -> 4 [] c = "5" -> 5 [] c = "6" -> 6 [] c = "7" -> 7
      [] c = "8" -> 8 [] c = "9" -> 9
      [] c \in {"a", "A"} -> 10 [] c \in {"b", "B"} -> 11
      [] c \in {"c", "C"} -> 12 [] c \in {"d", "D"} -> 13
      [] c \in {"e", "E"} -> 14 [] c \in {"f", "F"} -> 15

\* hex_digit: one hexadecimal digit, recoverable otherwise
hex_digit_of(st, rd) ==
    IF rd.c # None /\ rd.c \in HexDigits
    THEN [st |-> rd.st, r |-> Ok(hex_digit_value(rd.c))]
    ELSE [st |-> rd.st, r |-> Err(st.pos, TRUE, "HexDigit", <<>>)]

hex_digit(s, st) == hex_digit_of(st, ReaderRead(s, st))

\* one_or_more(hex_digit, ..) after its first digit: the digits read and
\* the reader restored to the state before the failed iteration
RECURSIVE more_hex_digits(_, _, _)
more_hex_digits(s, st, digits) ==
    LET m == hex_digit(s, st) IN
    IF m.r.ok THEN more_hex_digits(s, m.st, Append(digits, m.r.val))
    ELSE [st |-> st, digits |-> digits]

\* u32 values are kept as two limbs, v = hi * Limb + lo with lo < Limb and
\* hi < HiLimb (Limb * HiLimb = 2^32), so that 32-bit overflow is explicit
Limb == 16777216
HiLimb == 256

U32(hi, lo) == [hi |-> hi, lo |-> lo]

\* the exact product and sum, before reduction to 32 bits
MulSmall(w, d) ==
    U32(w.hi * d + ((w.lo * d) \div Limb), (w.lo * d) % Limb)
AddU32(a, b) ==
    U32(a.hi + b.hi + ((a.lo + b.lo) \div Limb), (a.lo + b.lo) % Limb)
Overflows(x) == x.hi >= HiLimb
Wrap(x) == U32(x.hi % HiLimb, x.lo)

\* a panic of the running thread (arithmetic overflow with overflow checks)
Panic(pos) == Err(pos, FALSE, "panic", <<>>)

\* the loop of hex_value over the reversed digits, in u32 arithmetic:
\* with overflow checks an overflowing operation panics, without them it
\* wraps
RECURSIVE hex_sum(_, _, _, _, _)
hex_sum(digits, i, v, weight, checks) ==
    IF i = 0 THEN [panic |-> FALSE, v |-> v]
    ELSE LET prod == MulSmall(weight, digits[i])
             sum == AddU32(v, Wrap(prod))
             w2 == MulSmall(weight, 16) IN
         IF checks /\ (Overflows(prod) \/ Overflows(sum) \/ Overflows(w2))
         THEN [panic |-> TRUE, v |-> v]
         ELSE hex_sum(digits, i - 1, Wrap(sum), Wrap(w2), checks)

\* hex_value once the digits are read
hex_value_of(rest, checks) ==
    LET v == hex_sum(rest.digits, Len(rest.digits), U32(0, 0), U32(0, 1), checks) IN
    IF v.panic THEN [st |-> rest.st, r |-> Panic(rest.st.pos)]
    ELSE [st |-> rest.st, r |-> Ok(v.v)]

hex_value(s, st, checks) ==
    LET first == hex_digit(s, st) IN
    IF ~first.r.ok
    THEN [st |-> first.st, r |-> Err(first.r.pos, FALSE, "HexDigit", <<>>)]
    ELSE hex_value_of(more_hex_digits(s, first.st, <<first.r.val>>), checks)

\* std::char::from_u32: None for a surrogate or a value above 10FFFF
IsScalarValue(v) == v.hi = 0 /\ v.lo <= 1114111 /\ ~(v.lo >= 55296 /\ v.lo <= 57343)

\* the character of a scalar value; the characters the inputs can spell
\* are written out, any other is named by its number
CharOf(v) ==
    CASE v = 8 -> BS [] v = 9 -> "\t" [] v = 10 -> "\n" [] v = 12 -> FF
      [] v = 13 -> "\r" [] v = 32 -> " " [] v = 34 -> "\"" [] v = 35 -> "#"
      [] v = 65 -> "A" [] v = 91 -> "[" [] v = 93 -> "]"
      [] v = 96 -> BQ [] v = 97 -> "a"
      [] OTHER -> "U+" \o ToString(v)

\* unicode once hex_value has returned hv
unicode_of(s, hv) ==
    LET close == literal(<<"}">>, s, hv.st) IN
    IF ~hv.r.ok THEN hv
    ELSE IF ~IsScalarValue(hv.r.val)
         THEN [st |-> hv.st, r |-> Err(hv.st.pos, FALSE, "Unicode", <<>>)]
    ELSE IF ~close.r.ok THEN close
    ELSE [st |-> close.st, r |-> Ok(CharOf(hv.r.val.lo))]

unicode(s, st, checks) ==
    LET open == literal(<<"{">>, s, st) IN
    IF ~open.r.ok THEN open
    ELSE unicode_of(s, hex_value(s, open.st, checks))

\* escape_char taking `\/` for an unknown escape
escape_char_of_slash_refused(s, bs, checks) ==
    LET start == bs.st
        rd == ReaderRead(s, start)
        c == rd.c IN
    IF ~bs.r.ok THEN bs
    ELSE IF c \in {"#", "\"", BQ, "\\"} THEN [st |-> rd.st, r |-> Ok(c)]
    ELSE IF c = "b" THEN [st |-> rd.st, r |-> Ok(BS)]
    ELSE IF c = "n" THEN [st |-> rd.st, r |-> Ok("\n")]
    ELSE IF c = "f" THEN [st |-> rd.st, r |-> Ok(FF)]
    ELSE IF c = "r" THEN [st |-> rd.st, r |-> Ok("\r")]
    ELSE IF c = "t" THEN [st |-> rd.st, r |-> Ok("\t")]
    ELSE IF c = "u" THEN unicode(s, rd.st, checks)
    ELSE [st |-> rd.st, r |-> Err(start.pos, FALSE, "EscapeChar", <<>>)]

\* escape_char once try_literal has returned bs for the backslash
escape_char_of(s, bs, checks) ==
    LET start == bs.st
        rd == ReaderRead(s, start)
        c == rd.c IN
    IF ~bs.r.ok THEN bs
    ELSE IF c \in {"#", "\"", BQ, "\\", "/"} THEN [st |-> rd.st, r |-> Ok(c)]
    ELSE IF c = "b" THEN [st |-> rd.st, r |-> Ok(BS)]
    ELSE IF c = "n" THEN [st |-> rd.st, r |-> Ok("\n")]
    ELSE IF c = "f" THEN [st |-> rd.st, r |-> Ok(FF)]
    ELSE IF c = "r" THEN [st |-> rd.st, r |-> Ok("\r")]
    ELSE IF c = "t" THEN [st |-> rd.st, r |-> Ok("\t")]
    ELSE IF c = "u" THEN unicode(s, rd.st, checks)
    ELSE [st |-> rd.st, r |-> Err(start.pos, FALSE, "EscapeChar", <<>>)]

escape_char(s, st, checks) ==
    escape_char_of(s, try_literal(<<"\\">>, s, st), checks)

\* the refused characters without the tab
ControlChars_without_tab == {"\\", BS, "\n", FF, "\r"}

\* the characters any_char refuses besides the caller's exceptions
ControlChars == {"\\", BS, "\n", FF, "\r", "\t"}

\* any_char once escape_char has returned e
any_char_of(except, s, start, e) ==
    LET rd == ReaderRead(s, start) IN
    IF e.r.ok
    THEN [st |-> e.st, r |-> Ok([c |-> e.r.val, s |-> peek_back(s, e.st, start.cursor)])]
    ELSE IF ~e.r.recoverable THEN e
    ELSE IF rd.c = None
         THEN [st |-> rd.st, r |-> Err(start.pos, TRUE, "Expecting", <<"char">>)]
    ELSE IF rd.c \in except \/ rd.c \in ControlChars
         THEN [st |-> rd.st, r |-> Err(start.pos, TRUE, "Expecting", <<"char">>)]
    ELSE [st |-> rd.st, r |-> Ok([c |-> rd.c, s |-> peek_back(s, rd.st, start.cursor)])]

\* any_char putting the reader back when it fails recoverably
any_char_restoring(except, s, st, checks) ==
    IF IsRecoverable(any_char_of(except, s, st, escape_char(s, st, checks)).r)
    THEN [st |-> st, r |-> any_char_of(except, s, st, escape_char(s, st, checks)).r]
    ELSE any_char_of(except, s, st, escape_char(s, st, checks))

any_char(except, s, st, checks) ==
    any_char_of(except, s, st, escape_char(s, st, checks))

\* char::is_alphanumeric on the characters the inputs can spell
AlphaNumeric ==
    {"a", "b", "c", "d", "e", "f", "g", "h", "i", "j", "k", "l", "m", "n",
     "o", "p", "q", "r", "s", "t", "u", "v", "w", "x", "y", "z",
     "A", "B", "C", "D", "E", "F", "G", "H", "I", "J", "K", "L", "M", "N",
     "O", "P", "Q", "R", "S", "T", "U", "V", "W", "X", "Y", "Z",
     "0", "1", "2", "3", "4", "5", "6", "7", "8", "9"}

IsKeyChar(c) == c \in AlphaNumeric \/ c \in {"_", "-", ".", "[", "]", "@", "$"}

\* the loop of unquoted_string_key: an escape sequence or a key character
\* per iteration; it leaves by break (err = FALSE) or by return Err(e)
RECURSIVE key_loop(_, _, _, _, _)

\* one iteration, once escape_char has returned e
key_step(s, save, value, encoded, checks, e) ==
    LET rd == ReaderRead(s, save) IN
    IF e.r.ok
    THEN key_loop(s, e.st, Append(value, e.r.val),
                  encoded \o peek_back(s, e.st, save.cursor), checks)
    ELSE IF ~e.r.recoverable
    THEN [st |-> e.st, value |-> value, encoded |-> encoded, err |-> TRUE, e |-> e.r]
    ELSE IF rd.c = None
    THEN [st |-> rd.st, value |-> value, encoded |-> encoded, err |-> FALSE, e |-> e.r]
    ELSE IF IsKeyChar(rd.c)
    THEN key_loop(s, rd.st, Append(value, rd.c),
                  encoded \o peek_back(s, rd.st, save.cursor), checks)
    ELSE [st |-> save, value |-> value, encoded |-> encoded, err |-> FALSE, e |-> e.r]

key_loop(s, st, value, encoded, checks) ==
    key_step(s, st, value, encoded, checks, escape_char(s, st, checks))

\* unquoted_string_key accepting a key that begins with a bare bracket
key_of_bracket_accepted(start, l) ==
    IF l.err THEN [st |-> l.st, r |-> l.e]
    ELSE IF l.value = <<>>
    THEN [st |-> l.st, r |-> Err(start, TRUE, "Expecting", <<"key string">>)]
    ELSE [st |-> l.st,
          r  |-> Ok([value |-> l.value, encoded |-> l.encoded, quotes |-> FALSE,
                     source_info |-> SourceInfo(start, l.st.pos)])]

\* unquoted_string_key after its loop
key_of(start, l) ==
    IF l.err THEN [st |-> l.st, r |-> l.e]
    ELSE IF l.value = <<>> \/ (l.encoded # <<>> /\ Head(l.encoded) = "[")
    THEN [st |-> l.st, r |-> Err(start, TRUE, "Expecting", <<"key string">>)]
    ELSE [st |-> l.st,
          r  |-> Ok([value |-> l.value, encoded |-> l.encoded, quotes |-> FALSE,
                     source_info |-> SourceInfo(start, l.st.pos)])]

unquoted_string_key(s, st, checks) ==
    key_of(st.pos, key_loop(s, st, <<>>, <<>>, checks))

\* ------------------------------------------------------------ templatize
\* expr::parse2 on the text between the braces: optional blanks, a
\* variable name, optional blanks
RECURSIVE read_name(_, _)
read_name(s, st) ==
    LET rd == ReaderRead(s, st) IN
    IF rd.c # None /\ (rd.c \in AlphaNumeric \/ rd.c \in {"_", "-"})
    THEN read_name(s, rd.st) ELSE st

\* the expression with its name between start and nameEnd
expr_of(s, st, start, nameEnd) ==
    IF nameEnd.cursor = start.cursor
    THEN Err(start.pos, FALSE, "TemplateVariable", <<>>)
    ELSE Ok([type |-> "Expression",
             space0 |-> Whitespace(peek_back(s, start, st.cursor), st.pos, start.pos),
             variable |-> [name |-> peek_back(s, nameEnd, start.cursor),
                           source_info |-> SourceInfo(start.pos, nameEnd.pos)],
             space1 |-> zero_or_more_spaces(s, nameEnd).r.val])

\* after the leading blanks, which end at start
expr_name(s, st, start) == expr_of(s, st, start, read_name(s, start))

expr_parse(s, st) == expr_name(s, st, zero_or_more_space(s, st))

StringElement(value, encoded) ==
    [type |-> "String", value |-> value, encoded |-> encoded]

\* elements plus the pending literal, if any
Flush(elements, value, encoded) ==
    IF value = <<>> THEN elements
    ELSE Append(elements, StringElement(value, encoded))

\* templatize: walks the (decoded, encoded, position) triples; mode is
\* "String", "FirstOpenBracket", "Template" or "FirstCloseBracket"
RECURSIVE templatize_loop(_, _, _, _, _, _, _, _)

\* the end of a {{ .. }}, once the text between the braces is parsed to x
templatize_expr(chars, i, elements, end, x) ==
    IF ~x.ok THEN x
    ELSE templatize_loop(chars, i + 1, "String", <<>>, <<>>,
                         Append(elements, x.val), <<>>, end)

templatize_loop(chars, i, mode, value, encoded, elements, exprStart, end) ==
    IF i > Len(chars)
    THEN CASE mode = "String" -> Ok(Flush(elements, value, encoded))
           [] mode = "FirstOpenBracket" ->
                Ok(Flush(elements, Append(value, "{"), Append(encoded, "{")))
           [] OTHER -> Err(end, FALSE, "Expecting", <<"}", "}">>)
    ELSE LET c == chars[i].c
             e == chars[i].s
             pos == chars[i].pos IN
         CASE mode = "String" ->
                IF e = <<"{">>
                THEN templatize_loop(chars, i + 1, "FirstOpenBracket", value, encoded,
                                     elements, exprStart, end)
                ELSE templatize_loop(chars, i + 1, "String", Append(value, c),
                                     encoded \o e, elements, exprStart, end)
           [] mode = "FirstOpenBracket" ->
                IF e = <<"{">>
                THEN templatize_loop(chars, i + 1, "Template", <<>>, <<>>,
                                     Flush(elements, value, encoded), exprStart, end)
                ELSE templatize_loop(chars, i + 1, "String", value \o <<"{", c>>,
                                     encoded \o <<"{">> \o e, elements, exprStart, end)
           [] mode = "Template" ->
                LET es == IF exprStart = <<>> THEN <<pos>> ELSE exprStart IN
                IF e = <<"}">>
                THEN templatize_loop(chars, i + 1, "FirstCloseBracket", value, encoded,
                                     elements, es, end)
                ELSE templatize_loop(chars, i + 1, "Template", Append(value, c),
                                     encoded \o e, elements, es, end)
           [] OTHER ->
                IF e = <<"}">>
                THEN templatize_expr(chars, i, elements, end,
                                     expr_parse(encoded,
                                                [cursor |-> 0, pos |-> exprStart[1]]))
                ELSE templatize_loop(chars, i + 1, "FirstCloseBracket",
                                     value \o <<"}", c>>, encoded \o <<"}">> \o e,
                                     elements, exprStart, end)

templatize(encoded_string) ==
    templatize_loop(encoded_string.chars, 1, "String", <<>>, <<>>, <<>>, <<>>,
                    encoded_string.source_info.end)

\* --------------------------------------------------------------- templates
Template(delimiter, elements, start, end) ==
    [delimiter |-> delimiter, elements |-> elements,
     source_info |-> SourceInfo(start, end)]

\* the loop of quoted_template and backtick_template: any_char until it
\* fails; a recoverable failure restores the reader and leaves the loop
RECURSIVE delimited_loop(_, _, _, _, _, _)

\* one iteration, once any_char has returned m
delimited_step(except, s, save, chars, end, checks, m) ==
    IF m.r.ok
    THEN delimited_loop(except, s, m.st,
                        Append(chars, [c |-> m.r.val.c, s |-> m.r.val.s, pos |-> save.pos]),
                        m.st.pos, checks)
    ELSE IF m.r.recoverable
    THEN [st |-> save, chars |-> chars, end |-> end, err |-> FALSE, e |-> m.r]
    ELSE [st |-> m.st, chars |-> chars, end |-> end, err |-> TRUE, e |-> m.r]

delimited_loop(except, s, st, chars, end, checks) ==
    delimited_step(except, s, st, chars, end, checks, any_char(except, s, st, checks))

\* the Template built from templatize's result
template_of(delimiter, start, st, end, elements) ==
    IF ~elements.ok THEN [st |-> st, r |-> elements]
    ELSE [st |-> st, r |-> Ok(Template(delimiter, elements.val, start, end))]

\* after the loop: the closing delimiter, then templatize
delimited_close(delim, s, start, l) ==
    LET close == literal(<<delim>>, s, l.st) IN
    IF l.err THEN [st |-> l.st, r |-> l.e]
    ELSE IF ~close.r.ok THEN close
    ELSE template_of(delim, start, close.st, close.st.pos,
                     templatize([source_info |-> SourceInfo(start, l.end),
                                 chars |-> l.chars]))

delimited_template(delim, except, s, st, checks) ==
    LET open == try_literal(<<delim>>, s, st) IN
    IF ~open.r.ok THEN open
    ELSE delimited_close(delim, s, st.pos,
                         delimited_loop(except, s, open.st, <<>>, st.pos, checks))

quoted_template(s, st, checks) ==
    delimited_template("\"", {"\""}, s, st, checks)

\* backtick_template refusing a bare double quote as well
backtick_template_refusing_quote(s, st, checks) ==
    delimited_template(BQ, {BQ, "\n", "\""}, s, st, checks)

backtick_template(s, st, checks) ==
    delimited_template(BQ, {BQ, "\n"}, s, st, checks)

\* the loop of unquoted_template: blanks are held back in spaces until a
\* later character shows they are not trailing
RECURSIVE unquoted_loop(_, _, _, _, _, _)

\* one iteration that keeps every space as content
unquoted_step_no_trim(s, pos, chars, spaces, end, checks, m) ==
    IF ~m.r.ok
    THEN [st |-> m.st, chars |-> chars, end |-> end,
          err |-> ~m.r.recoverable, e |-> m.r]
    ELSE unquoted_loop(s, m.st,
                       Append(chars, [c |-> m.r.val.c, s |-> m.r.val.s, pos |-> pos]),
                       <<>>, m.st, checks)

\* one iteration, once any_char has returned m
unquoted_step(s, pos, chars, spaces, end, checks, m) ==
    IF ~m.r.ok
    THEN [st |-> m.st, chars |-> chars, end |-> end,
          err |-> ~m.r.recoverable, e |-> m.r]
    ELSE IF m.r.val.s = <<"\n">>
    THEN [st |-> m.st, chars |-> chars, end |-> end, err |-> FALSE, e |-> m.r]
    ELSE IF m.r.val.s = <<" ">>
    THEN unquoted_loop(s, m.st, chars,
                       Append(spaces, [c |-> m.r.val.c, s |-> m.r.val.s, pos |-> pos]),
                       end, checks)
    ELSE unquoted_loop(s, m.st,
                       Append(chars \o spaces,
                              [c |-> m.r.val.c, s |-> m.r.val.s, pos |-> pos]),
                       <<>>, m.st, checks)

unquoted_loop(s, st, chars, spaces, end, checks) ==
    unquoted_step(s, st.pos, chars, spaces, end, checks, any_char({"#"}, s, st, checks))

\* the end of unquoted_template without the reader put back to end
unquoted_close_not_put_back(start, l) ==
    IF l.err THEN [st |-> l.st, r |-> l.e]
    ELSE template_of(None, start.pos, l.st, l.end.pos,
                     templatize([source_info |-> SourceInfo(start.pos, l.end.pos),
                                 chars |-> l.chars]))

\* after the loop: the reader goes back to end, then templatize
unquoted_close(start, l) ==
    IF l.err THEN [st |-> l.st, r |-> l.e]
    ELSE template_of(None, start.pos, l.end, l.end.pos,
                     templatize([source_info |-> SourceInfo(start.pos, l.end.pos),
                                 chars |-> l.chars]))

unquoted_template(s, st, checks) ==
    unquoted_close(st, unquoted_loop(s, st, <<>>, <<>>, st, checks))

\* ------------------------------------------------- the loops, step by step
\* what one iteration of a loop does to the reader, and whether the loop
\* goes on after it
Iteration(st, continues) == [st |-> st, continues |-> continues]

\* one iteration of the loop of unquoted_template, once any_char has
\* returned m
unquoted_iteration(save, m) ==
    IF ~m.r.ok THEN Iteration(m.st, FALSE)
    ELSE IF m.r.val.s = <<"\n">> THEN Iteration(m.st, FALSE)
    ELSE Iteration(m.st, TRUE)

\* one iteration of the loop of unquoted_string_key, once escape_char has
\* returned e
key_iteration(s, save, e) ==
    LET rd == ReaderRead(s, save) IN
    IF e.r.ok THEN Iteration(e.st, TRUE)
    ELSE IF ~e.r.recoverable THEN Iteration(e.st, FALSE)
    ELSE IF rd.c = None THEN Iteration(rd.st, FALSE)
    ELSE IF IsKeyChar(rd.c) THEN Iteration(rd.st, TRUE)
    ELSE Iteration(save, FALSE)

\* one iteration of the loop of quoted_template and backtick_template, once
\* any_char has returned m
delimited_iteration(save, m) ==
    IF m.r.ok THEN Iteration(m.st, TRUE)
    ELSE IF m.r.recoverable THEN Iteration(save, FALSE)
    ELSE Iteration(m.st, FALSE)

\* one iteration of zero_or_more(f, ..), once f has returned m: it leaves
\* at the end of the input without applying f
zero_or_more_iteration(s, save, m) ==
    IF save.cursor >= Len(s) THEN Iteration(save, FALSE)
    ELSE IF m.r.ok THEN Iteration(m.st, TRUE)
    ELSE Iteration(save, FALSE)

\* the n-th iteration of one_or_more(f, ..), once f has returned m: the
\* reader is put back when a later application fails, not the first
one_or_more_iteration(save, n, m) ==
    IF m.r.ok THEN Iteration(m.st, TRUE)
    ELSE IF n = 0 THEN Iteration(m.st, FALSE)
    ELSE Iteration(save, FALSE)

\* ---------------------------------------------------------- value grammar
\* The value-literal grammar consumed by the predicate rules: an ordered
\* choice over null, booleans, numbers, byte arrays, an expression, a
\* quoted template and a regular expression.
Digits == {"0", "1", "2", "3", "4", "5", "6", "7", "8", "9"}

RECURSIVE read_while(_, _, _)
read_while(set, s, st) ==
    LET rd == ReaderRead(s, st) IN
    IF rd.c # None /\ rd.c \in set THEN read_while(set, s, rd.st) ELSE st

PredicateValue(kind, s, from, st) ==
    [kind |-> kind, encoded |-> peek_back(s, st, from.cursor)]

\* a keyword value: null, true, false
keyword_value(lit, kind, s, st) ==
    LET m == try_literal(lit, s, st) IN
    IF m.r.ok THEN [st |-> m.st, r |-> Ok(PredicateValue(kind, s, st, m.st))]
    ELSE m

\* digits, a Float when a fraction follows and an Integer otherwise
number_value(s, st) ==
    LET int == read_while(Digits, s, st)
        dot == try_literal(<<".">>, s, int)
        frac == read_while(Digits, s, dot.st) IN
    IF int.cursor = st.cursor
    THEN [st |-> st, r |-> Err(st.pos, TRUE, "Expecting", <<"number">>)]
    ELSE IF dot.r.ok /\ frac.cursor > dot.st.cursor
    THEN [st |-> frac, r |-> Ok(PredicateValue("Float", s, st, frac))]
    ELSE [st |-> int, r |-> Ok(PredicateValue("Integer", s, st, int))]

\* prefix, body characters, closing literal: hex,..; base64,..; /../
enclosed_value(open, bodyChars, close, kind, s, st) ==
    LET o == try_literal(open, s, st)
        b == read_while(bodyChars, s, o.st)
        c == literal(close, s, b) IN
    IF ~o.r.ok THEN o
    ELSE IF ~c.r.ok THEN c
    ELSE [st |-> c.st, r |-> Ok(PredicateValue(kind, s, st, c.st))]

\* {{ name }}
expression_value(s, st) ==
    LET o == try_literal(<<"{", "{">>, s, st)
        b == read_while(AlphaNumeric \cup {"_", "-", " "}, s, o.st)
        x == expr_parse(peek_back(s, b, o.st.cursor), [cursor |-> 0, pos |-> o.st.pos])
        c == literal(<<"}", "}">>, s, b) IN
    IF ~o.r.ok THEN o
    ELSE IF ~x.ok THEN [st |-> b, r |-> x]
    ELSE IF ~c.r.ok THEN c
    ELSE [st |-> c.st, r |-> Ok(PredicateValue("Expression", s, st, c.st))]

\* a String value once quoted_template has returned m
string_value_of(s, st, m) ==
    IF m.r.ok
    THEN [st |-> m.st,
          r  |-> Ok([kind |-> "String", encoded |-> peek_back(s, m.st, st.cursor),
                     template |-> m.r.val])]
    ELSE m

string_value(s, st, checks) ==
    string_value_of(s, st, quoted_template(s, st, checks))

\* the alternatives of the value grammar, each applied at st
ValueAlternatives(s, st, checks) ==
    << keyword_value(<<"n", "u", "l", "l">>, "Null", s, st),
       keyword_value(<<"t", "r", "u", "e">>, "Bool", s, st),
       keyword_value(<<"f", "a", "l", "s", "e">>, "Bool", s, st),
       number_value(s, st),
       enclosed_value(<<"h", "e", "x", ",">>, HexDigits, <<";">>, "Hex", s, st),
       enclosed_value(<<"b", "a", "s", "e", "6", "4", ",">>,
                      AlphaNumeric \cup {"+", "/", "="}, <<";">>, "Base64", s, st),
       expression_value(s, st),
       string_value(s, st, checks),
       enclosed_value(<<"/">>, AlphaNumeric, <<"/">>, "Regex", s, st) >>

\* choice: the index of the first alternative that does not fail
\* recoverably (every alternative starts from the same reader state, which
\* choice restores after a recoverable failure), or of the last one
RECURSIVE first_unrecoverable(_, _)
first_unrecoverable(rs, i) ==
    IF i = Len(rs) \/ ~IsRecoverable(rs[i].r) THEN i
    ELSE first_unrecoverable(rs, i + 1)

\* predicate_value once the alternatives have returned rs: when none
\* matches, the failure is anchored at the value's start; vrec tells whether
\* the grammar reports it as recoverable
predicate_value_of(st, vrec, rs) ==
    IF IsRecoverable(rs[first_unrecoverable(rs, 1)].r)
    THEN [st |-> st, r |-> Err(st.pos, vrec, "PredicateValue", <<>>)]
    ELSE rs[first_unrecoverable(rs, 1)]

predicate_value(s, st, vrec, checks) ==
    predicate_value_of(st, vrec, ValueAlternatives(s, st, checks))

\* ------------------------------------------------------------ predicate.rs
is_number(v) == v.kind \in {"Integer", "Float"}
is_string(v) == v.kind = "String"
is_bytearray(v) == v.kind = "Hex" \/ v.kind = "Base64"
is_expression(v) == v.kind = "Expression"

\* the line written to stderr for a deprecated spelling
Deprecated(word, symbol) == [deprecated |-> word, use |-> symbol]

\* the value-kind checks made after the value is parsed
AnyValue(v) == TRUE
\* the ordering check without the expression case
OrderingValue_no_expression(v) == is_number(v) \/ is_string(v)

OrderingValue(v) == is_number(v) \/ is_string(v) \/ is_expression(v)

\* the string-or-bytes check with the byte array taken to be Hex only
StringOrBytes_hex_only(v) == is_string(v) \/ v.kind = "Hex"

StringOrBytes(v) == is_string(v) \/ is_bytearray(v)

\* the check of matches without the regular expression
StringOrRegex_string_only(v) == v.kind = "String"

StringOrRegex(v) == v.kind = "String" \/ v.kind = "Regex"

ValueAccepted(kind, v) ==
    CASE kind \in {"Equal", "NotEqual", "Include"} -> AnyValue(v)
      [] kind \in {"GreaterThan", "GreaterThanOrEqual",
                   "LessThan", "LessThanOrEqual"} -> OrderingValue(v)
      [] kind \in {"StartWith", "EndWith", "Contain"} -> StringOrBytes(v)
      [] kind = "Match" -> StringOrRegex(v)

\* the whitespace rule that takes zero or more after either spelling
SpaceAfter_zero_or_more(operator, s, st) == zero_or_more_spaces(s, st)

\* the whitespace rule after the keyword: the symbolic spelling takes zero
\* or more, every other spelling one or more
SpaceAfter(operator, s, st) ==
    IF operator THEN zero_or_more_spaces(s, st) ELSE one_or_more_spaces(s, st)

\* the PredicateFuncValue of a kind with a value; the kinds with two
\* spellings carry the operator flag
FuncValue(kind, spellings, operator, space0, value) ==
    IF spellings = 2
    THEN [kind |-> kind, space0 |-> space0, value |-> value, operator |-> operator]
    ELSE [kind |-> kind, space0 |-> space0, value |-> value]

\* the end of an alternative with a value, once predicate_value has
\* returned value: the check of the value's kind
checked_value(kind, spellings, operator, log, space0, start, value) ==
    IF ~value.r.ok THEN [st |-> value.st, r |-> value.r, log |-> log]
    ELSE IF ValueAccepted(kind, value.r.val)
    THEN [st |-> value.st,
          r  |-> Ok(FuncValue(kind, spellings, operator, space0, value.r.val)),
          log |-> log]
    ELSE [st |-> value.st, r |-> Err(start.pos, FALSE, "PredicateValue", <<>>),
          log |-> log]

\* an alternative with a value once the whitespace rule has returned space0
spaced_value(kind, spellings, operator, log, s, space0, vrec, checks) ==
    IF ~space0.r.ok THEN [st |-> space0.st, r |-> space0.r, log |-> log]
    ELSE checked_value(kind, spellings, operator, log, space0.r.val, space0.st,
                       predicate_value(s, space0.st, vrec, checks))

\* the six alternatives writing no deprecation notice
operator_predicate_silent(kind, word, symbol, s, st, vrec, checks) ==
    LET lit == try_literals(word, symbol, s, st)
        operator == (lit.r.val = symbol) IN
    IF ~lit.r.ok THEN [st |-> lit.st, r |-> lit.r, log |-> <<>>]
    ELSE spaced_value(kind, 2, operator, <<>>,
                      s, SpaceAfter(operator, s, lit.st), vrec, checks)

\* the six alternatives writing the deprecation notice for either spelling
operator_predicate_always_noticed(kind, word, symbol, s, st, vrec, checks) ==
    LET lit == try_literals(word, symbol, s, st)
        operator == (lit.r.val = symbol) IN
    IF ~lit.r.ok THEN [st |-> lit.st, r |-> lit.r, log |-> <<>>]
    ELSE spaced_value(kind, 2, operator, <<Deprecated(word, symbol)>>,
                      s, SpaceAfter(operator, s, lit.st), vrec, checks)

\* the body shared by the six alternatives that have two spellings
operator_predicate(kind, word, symbol, s, st, vrec, checks) ==
    LET lit == try_literals(word, symbol, s, st)
        operator == (lit.r.val = symbol) IN
    IF ~lit.r.ok THEN [st |-> lit.st, r |-> lit.r, log |-> <<>>]
    ELSE spaced_value(kind, 2, operator,
                      IF operator THEN <<>> ELSE <<Deprecated(word, symbol)>>,
                      s, SpaceAfter(operator, s, lit.st), vrec, checks)

equal_predicate(s, st, vrec, checks) ==
    operator_predicate("Equal", <<"e", "q", "u", "a", "l", "s">>, <<"=", "=">>,
                       s, st, vrec, checks)

\* notEquals and != read as the kind Equal
not_equal_predicate_as_equal(s, st, vrec, checks) ==
    operator_predicate("Equal", <<"n", "o", "t", "E", "q", "u", "a", "l", "s">>,
                       <<"!", "=">>, s, st, vrec, checks)

not_equal_predicate(s, st, vrec, checks) ==
    operator_predicate("NotEqual", <<"n", "o", "t", "E", "q", "u", "a", "l", "s">>,
                       <<"!", "=">>, s, st, vrec, checks)

greater_predicate(s, st, vrec, checks) ==
    operator_predicate("GreaterThan",
                       <<"g", "r", "e", "a", "t", "e", "r", "T", "h", "a", "n">>,
                       <<">">>, s, st, vrec, checks)

greater_or_equal_predicate(s, st, vrec, checks) ==
    operator_predicate("GreaterThanOrEqual",
                       <<"g", "r", "e", "a", "t", "e", "r", "T", "h", "a", "n",
                         "O", "r", "E", "q", "u", "a", "l", "s">>,
                       <<">", "=">>, s, st, vrec, checks)

less_predicate(s, st, vrec, checks) ==
    operator_predicate("LessThan", <<"l", "e", "s", "s", "T", "h", "a", "n">>,
                       <<"<">>, s, st, vrec, checks)

less_or_equal_predicate(s, st, vrec, checks) ==
    operator_predicate("LessThanOrEqual",
                       <<"l", "e", "s", "s", "T", "h", "a", "n",
                         "O", "r", "E", "q", "u", "a", "l", "s">>,
                       <<"<", "=">>, s, st, vrec, checks)

\* the body shared by the alternatives with one spelling and a value
keyword_predicate(kind, word, s, st, vrec, checks) ==
    LET lit == try_literal(word, s, st) IN
    IF ~lit.r.ok THEN [st |-> lit.st, r |-> lit.r, log |-> <<>>]
    ELSE spaced_value(kind, 1, FALSE, <<>>, s, one_or_more_spaces(s, lit.st),
                      vrec, checks)

start_with_predicate(s, st, vrec, checks) ==
    keyword_predicate("StartWith", <<"s", "t", "a", "r", "t", "s", "W", "i", "t", "h">>,
                      s, st, vrec, checks)

end_with_predicate(s, st, vrec, checks) ==
    keyword_predicate("EndWith", <<"e", "n", "d", "s", "W", "i", "t", "h">>,
                      s, st, vrec, checks)

contain_predicate(s, st, vrec, checks) ==
    keyword_predicate("Contain", <<"c", "o", "n", "t", "a", "i", "n", "s">>,
                      s, st, vrec, checks)

include_predicate(s, st, vrec, checks) ==
    keyword_predicate("Include", <<"i", "n", "c", "l", "u", "d", "e", "s">>,
                      s, st, vrec, checks)

match_predicate(s, st, vrec, checks) ==
    keyword_predicate("Match", <<"m", "a", "t", "c", "h", "e", "s">>,
                      s, st, vrec, checks)

\* an alternative without a value that reads the blanks after its keyword
type_predicate_blanks_read(kind, word, s, st) ==
    LET lit == try_literal(word, s, st) IN
    IF ~lit.r.ok THEN [st |-> lit.st, r |-> lit.r, log |-> <<>>]
    ELSE [st |-> zero_or_more_spaces(s, lit.st).st, r |-> Ok([kind |-> kind]),
          log |-> <<>>]

\* the body shared by the alternatives without a value
type_predicate(kind, word, s, st) ==
    LET lit == try_literal(word, s, st) IN
    IF ~lit.r.ok THEN [st |-> lit.st, r |-> lit.r, log |-> <<>>]
    ELSE [st |-> lit.st, r |-> Ok([kind |-> kind]), log |-> <<>>]

integer_predicate(s, st) ==
    type_predicate("IsInteger", <<"i", "s", "I", "n", "t", "e", "g", "e", "r">>, s, st)
float_predicate(s, st) ==
    type_predicate("IsFloat", <<"i", "s", "F", "l", "o", "a", "t">>, s, st)
boolean_predicate(s, st) ==
    type_predicate("IsBoolean", <<"i", "s", "B", "o", "o", "l", "e", "a", "n">>, s, st)
string_predicate(s, st) ==
    type_predicate("IsString", <<"i", "s", "S", "t", "r", "i", "n", "g">>, s, st)
collection_predicate(s, st) ==
    type_predicate("IsCollection",
                   <<"i", "s", "C", "o", "l", "l", "e", "c", "t", "i", "o", "n">>, s, st)
date_predicate(s, st) ==
    type_predicate("IsDate", <<"i", "s", "D", "a", "t", "e">>, s, st)
exist_predicate(s, st) ==
    type_predicate("Exist", <<"e", "x", "i", "s", "t", "s">>, s, st)
is_empty_predicate(s, st) ==
    type_predicate("IsEmpty", <<"i", "s", "E", "m", "p", "t", "y">>, s, st)

\* the list with each shorter spelling ahead of the longer one it begins
PredicateAlternatives_shorter_first(s, st, vrec, checks) ==
    << equal_predicate(s, st, vrec, checks),
       not_equal_predicate(s, st, vrec, checks),
       greater_predicate(s, st, vrec, checks),
       greater_or_equal_predicate(s, st, vrec, checks),
       less_predicate(s, st, vrec, checks),
       less_or_equal_predicate(s, st, vrec, checks),
       start_with_predicate(s, st, vrec, checks),
       end_with_predicate(s, st, vrec, checks),
       contain_predicate(s, st, vrec, checks),
       include_predicate(s, st, vrec, checks),
       match_predicate(s, st, vrec, checks),
       integer_predicate(s, st),
       float_predicate(s, st),
       boolean_predicate(s, st),
       string_predicate(s, st),
       collection_predicate(s, st),
       date_predicate(s, st),
       exist_predicate(s, st),
       is_empty_predicate(s, st) >>

\* the ordered list handed to choice by predicate_func_value, each
\* alternative applied at st
PredicateAlternatives(s, st, vrec, checks) ==
    << equal_predicate(s, st, vrec, checks),
       not_equal_predicate(s, st, vrec, checks),
       greater_or_equal_predicate(s, st, vrec, checks),
       greater_predicate(s, st, vrec, checks),
       less_or_equal_predicate(s, st, vrec, checks),
       less_predicate(s, st, vrec, checks),
       start_with_predicate(s, st, vrec, checks),
       end_with_predicate(s, st, vrec, checks),
       contain_predicate(s, st, vrec, checks),
       include_predicate(s, st, vrec, checks),
       match_predicate(s, st, vrec, checks),
       integer_predicate(s, st),
       float_predicate(s, st),
       boolean_predicate(s, st),
       string_predicate(s, st),
       collection_predicate(s, st),
       date_predicate(s, st),
       exist_predicate(s, st),
       is_empty_predicate(s, st) >>

\* what the alternatives 1..n of rs wrote to stderr, in order
RECURSIVE LogUpTo(_, _)
LogUpTo(rs, n) == IF n = 0 THEN <<>> ELSE LogUpTo(rs, n - 1) \o rs[n].log

\* choice over the results rs of the alternatives: the alternatives
\* 1..tried were applied, and the result is that of the last one applied
choice_at(rs, i) ==
    [st |-> rs[i].st, r |-> rs[i].r, log |-> LogUpTo(rs, i), tried |-> i]

choice(rs) == choice_at(rs, first_unrecoverable(rs, 1))

\* predicate_func_value turning every failure of choice into the Predicate
\* diagnostic
func_value_of_all_converted(start, m) ==
    IF ~m.r.ok
    THEN [st |-> m.st, r |-> Err(start.pos, FALSE, "Predicate", <<>>),
          log |-> m.log, tried |-> m.tried]
    ELSE m

\* predicate_func_value handing on the failure of choice as it is
func_value_of_unconverted(start, m) == m

\* predicate_func_value once choice has returned m
func_value_of(start, m) ==
    IF IsRecoverable(m.r)
    THEN [st |-> m.st, r |-> Err(start.pos, FALSE, "Predicate", <<>>),
          log |-> m.log, tried |-> m.tried]
    ELSE m

predicate_func_value(s, st, vrec, checks) ==
    func_value_of(st, choice(PredicateAlternatives(s, st, vrec, checks)))

\* predicate_func taking the start of its span after predicate_func_value
func_of_start_after(start, m) ==
    IF ~m.r.ok THEN m
    ELSE [st |-> m.st,
          r  |-> Ok([source_info |-> SourceInfo(m.st.pos, m.st.pos), value |-> m.r.val]),
          log |-> m.log, tried |-> m.tried]

\* predicate_func once predicate_func_value has returned m
func_of(start, m) ==
    IF ~m.r.ok THEN m
    ELSE [st |-> m.st,
          r  |-> Ok([source_info |-> SourceInfo(start, m.st.pos), value |-> m.r.val]),
          log |-> m.log, tried |-> m.tried]

predicate_func(s, st, vrec, checks) ==
    func_of(st.pos, predicate_func_value(s, st, vrec, checks))

\* predicate returning the whitespace after `not` without its width
predicate_of_space_collapsed(n, func) ==
    IF ~func.r.ok THEN func
    ELSE [st |-> func.st,
          r  |-> Ok([not |-> n.not,
                     space0 |-> Whitespace(n.space0.value,
                                           n.space0.source_info.start,
                                           n.space0.source_info.start),
                     predicate_func |-> func.r.val]),
          log |-> func.log, tried |-> func.tried]

\* predicate once predicate_func has returned func
predicate_of(n, func) ==
    IF ~func.r.ok THEN func
    ELSE [st |-> func.st,
          r  |-> Ok([not |-> n.not, space0 |-> n.space0, predicate_func |-> func.r.val]),
          log |-> func.log, tried |-> func.tried]

\* predicate once predicate_not has returned n
predicate_after_not(s, n, vrec, checks) ==
    predicate_of(n, predicate_func(s, n.st, vrec, checks))

predicate(s, st, vrec, checks) ==
    predicate_after_not(s, predicate_not(s, st), vrec, checks)

\* ----------------------------------------------------------- tap/report.rs
\* A report file is a text: a sequence of characters. A Testcase is a
\* description and a success flag.
Testcase(description, success) == [description |-> description, success |-> success]

TapError(message) == [ok |-> FALSE, message |-> message]

\* format!("{n}") of a usize
DigitChars == <<"0", "1", "2", "3", "4", "5", "6", "7", "8", "9">>
RECURSIVE format_usize(_)
format_usize(n) ==
    IF n < 10 THEN <<DigitChars[n + 1]>>
    ELSE format_usize(n \div 10) \o <<DigitChars[(n % 10) + 1]>>

\* str::parse::<usize> succeeds: digits after an optional plus sign (the
\* parsed number is not used by the callers)
parses_usize(s) ==
    LET digits == IF s # <<>> /\ s[1] = "+" THEN Tail(s) ELSE s IN
    /\ digits # <<>>
    /\ \A i \in 1..Len(digits) : digits[i] \in Digits

\* str::trim
WhiteChars == {" ", "\t", "\r", "\n"}
RECURSIVE trim_start(_)
trim_start(s) ==
    IF s # <<>> /\ s[1] \in WhiteChars THEN trim_start(Tail(s)) ELSE s
RECURSIVE trim_end(_)
trim_end(s) ==
    IF s # <<>> /\ s[Len(s)] \in WhiteChars
    THEN trim_end(SubSeq(s, 1, Len(s) - 1)) ELSE s
trim(s) == trim_end(trim_start(s))

\* str::find: the 1-based index of the first occurrence of pat in s, 0
\* when there is none
RECURSIVE find_from(_, _, _)
find_from(s, pat, i) ==
    IF i + Len(pat) - 1 > Len(s) THEN 0
    ELSE IF SubSeq(s, i, i + Len(pat) - 1) = pat THEN i
    ELSE find_from(s, pat, i + 1)
find(s, pat) == find_from(s, pat, 1)

\* str::lines: the text cut at line feeds, a carriage return before the
\* line feed dropped, no empty line after the last line feed
strip_cr(l) ==
    IF l # <<>> /\ l[Len(l)] = "\r" THEN SubSeq(l, 1, Len(l) - 1) ELSE l
RECURSIVE lines_of(_, _)
lines_of(s, k) ==
    IF k = 0 THEN <<s>>
    ELSE <<strip_cr(SubSeq(s, 1, k - 1))>>
            \o (IF k = Len(s) THEN <<>>
                ELSE lines_of(SubSeq(s, k + 1, Len(s)),
                              find(SubSeq(s, k + 1, Len(s)), <<"\n">>)))
lines(s) == IF s = <<>> THEN <<>> ELSE lines_of(s, find(s, <<"\n">>))

\* str::split(".."): the first two tokens of the header; there is a second
\* one when the header holds a `..`, at index k
split_first(s, k) == IF k = 0 THEN s ELSE SubSeq(s, 1, k - 1)
split_rest(s, k) == SubSeq(s, k + 2, Len(s))
header_first(header) == split_first(header, find(header, <<".", ".">>))
header_second(header, k) ==
    split_first(split_rest(header, k), find(split_rest(header, k), <<".", ".">>))

\* Testcase::parse: a line that starts with `ok` is a success and one that
\* starts with `nok` a failure; the text up to the first `-` is the test
\* number and the text after it, trimmed, the description
InvalidLine(line) == TapError(<<"Invalid TAP line">> \o line)
testcase_of(line, success, rest, dash) ==
    IF dash = 0 THEN InvalidLine(line)
    ELSE IF ~parses_usize(trim(SubSeq(rest, 1, dash - 1))) THEN InvalidLine(line)
    ELSE Ok(Testcase(trim(SubSeq(rest, dash + 1, Len(rest))), success))
testcase_rest(line, success, rest) ==
    testcase_of(line, success, rest, find(rest, <<"-">>))
Testcase_parse(line) ==
    IF SubSeq(line, 1, 2) = <<"o", "k">>
    THEN testcase_rest(line, TRUE, SubSeq(line, 3, Len(line)))
    ELSE IF SubSeq(line, 1, 3) = <<"n", "o", "k">>
    THEN testcase_rest(line, FALSE, SubSeq(line, 4, Len(line)))
    ELSE InvalidLine(line)

\* the loop of parse_tap_report over the lines after the header
RECURSIVE parse_lines(_, _, _)
parse_line(ls, i, testcases, testcase) ==
    IF ~testcase.ok THEN testcase
    ELSE parse_lines(ls, i + 1, Append(testcases, testcase.val))
parse_lines(ls, i, testcases) ==
    IF i > Len(ls) THEN Ok(testcases)
    ELSE IF trim(ls[i]) = <<>> THEN parse_lines(ls, i + 1, testcases)
    ELSE parse_line(ls, i, testcases, Testcase_parse(trim(ls[i])))

InvalidHeader(header) == TapError(<<"Invalid TAP Header">> \o header)

\* parse_tap_report once the text is cut into the lines ls
parse_report_lines(ls) ==
    IF ls = <<>> THEN Ok(<<>>)
    ELSE IF ~parses_usize(header_first(ls[1])) THEN InvalidHeader(ls[1])
    ELSE IF find(ls[1], <<".", ".">>) = 0 THEN InvalidHeader(ls[1])
    ELSE IF ~parses_usize(header_second(ls[1], find(ls[1], <<".", ".">>)))
    THEN InvalidHeader(ls[1])
    ELSE parse_lines(ls, 2, <<>>)

parse_tap_report(s) == parse_report_lines(lines(s))

\* parse_tap_file: a path that does not exist gives no testcase
parse_tap_file(f) == IF f = None THEN Ok(<<>>) ELSE parse_tap_report(f)

\* the result lines written by write_tap_file, from the i-th testcase on
RECURSIVE tap_lines(_, _)
tap_lines(testcases, i) ==
    IF i > Len(testcases) THEN <<>>
    ELSE (IF testcases[i].success THEN <<>> ELSE <<"n", "o", "t", " ">>)
            \o <<"o", "k", " ">> \o format_usize(i) \o <<" ", "-", " ">>
            \o testcases[i].description \o <<"\n">> \o tap_lines(testcases, i + 1)

\* write_tap_file: the text the file holds afterwards
write_tap_file(testcases) ==
    <<"1", ".", ".">> \o format_usize(Len(testcases)) \o <<"\n">>
        \o tap_lines(testcases, 1)

\* write_report once parse_tap_file has returned existing: the file
\* afterwards and the result
write_report_of(f, existing, new_testcases) ==
    IF ~existing.ok THEN [file |-> f, r |-> existing]
    ELSE [file |-> write_tap_file(existing.val \o new_testcases), r |-> Ok(<<>>)]

write_report(f, new_testcases) ==
    write_report_of(f, parse_tap_file(f), new_testcases)

\* ------------------------------------------------------------------ inputs
\* runs of blanks up to MaxSpaces long, and a tab
BlankRuns ==
    {[i \in 1..k |-> " "] : k \in 0..MaxSpaces} \cup {<<"\t">>}

\* every keyword and operator of the predicate grammar, and a word that is
\* none of them
Keywords ==
    { <<"e", "q", "u", "a", "l", "s">>, <<"=", "=">>,
      <<"n", "o", "t", "E", "q", "u", "a", "l", "s">>, <<"!", "=">>,
      <<"g", "r", "e", "a", "t", "e", "r", "T", "h", "a", "n">>, <<">">>,
      <<"g", "r", "e", "a", "t", "e", "r", "T", "h", "a", "n",
        "O", "r", "E", "q", "u", "a", "l", "s">>, <<">", "=">>,
      <<"l", "e", "s", "s", "T", "h", "a", "n">>, <<"<">>,
      <<"l", "e", "s", "s", "T", "h", "a", "n",
        "O", "r", "E", "q", "u", "a", "l", "s">>, <<"<", "=">>,
      <<"s", "t", "a", "r", "t", "s", "W", "i", "t", "h">>,
      <<"e", "n", "d", "s", "W", "i", "t", "h">>,
      <<"c", "o", "n", "t", "a", "i", "n", "s">>,
      <<"i", "n", "c", "l", "u", "d", "e", "s">>,
      <<"m", "a", "t", "c", "h", "e", "s">>,
      <<"i", "s", "I", "n", "t", "e", "g", "e", "r">>,
      <<"i", "s", "F", "l", "o", "a", "t">>,
      <<"i", "s", "B", "o", "o", "l", "e", "a", "n">>,
      <<"i", "s", "S", "t", "r", "i", "n", "g">>,
      <<"i", "s", "C", "o", "l", "l", "e", "c", "t", "i", "o", "n">>,
      <<"i", "s", "D", "a", "t", "e">>,
      <<"e", "x", "i", "s", "t", "s">>,
      <<"i", "s", "E", "m", "p", "t", "y">>,
      <<"t", "a", "t", "a">> }

\* one text per value kind, an unterminated string, a word that is no
\* value, and no text at all
ValueTexts ==
    { <<"n", "u", "l", "l">>, <<"t", "r", "u", "e">>, <<"2">>, <<"1", ".", "1">>,
      <<"h", "e", "x", ",", "f", "f", ";">>,
      <<"b", "a", "s", "e", "6", "4", ",", "Y", "Q", "=", "=", ";">>,
      <<"{", "{", "x", "}", "}">>, <<"\"", "B", "\"">>, <<"/", "a", "/">>,
      <<"\"", "B">>, <<"X", "X">>, <<>> }

\* keyword [blanks] value
Clauses == { k \o w \o v : k \in Keywords, w \in BlankRuns, v \in ValueTexts }

\* not [blanks] keyword blank value
Negations ==
    { <<"n", "o", "t">> \o b \o k \o <<" ">> \o v :
        b \in BlankRuns, k \in Keywords, v \in {<<"t", "r", "u", "e">>, <<"X", "X">>} }

PredicateInputs == Clauses \cup Negations

\* the characters of the raw texts given to the string rules
Alphabet == {"a", " ", "\\", "\"", BQ, "#", "\n", "["}

RawTexts == UNION {[1..n -> Alphabet] : n \in 0..MaxLen}

\* runs of spaces up to MaxSpaces long
SpaceRuns == {[i \in 1..k |-> " "] : k \in 0..MaxSpaces}

\* the text of a template outside any delimiter: content, trailing spaces
\* and what ends the line
TemplateWords ==
    { <<>>, <<"a">>, <<"a", " ", "a">>, <<"\\", "u", "{", "2", "0", "}">>,
      <<"a", "\\", "u", "{", "2", "0", "}">>, <<"\\", "#">>, <<"a", "\\", "t">> }
TemplateTails ==
    { <<>>, <<"#">>, <<"#", " ", "a">>, <<"\n">>, <<"\n", "a">>, <<"\t">>, <<"\t", "a">> }
TemplateTexts ==
    { w \o b \o e : w \in TemplateWords, b \in SpaceRuns, e \in TemplateTails }

\* a backslash followed by each escape letter, and by characters that are
\* none, with and without a character after
EscapeTexts ==
    { <<"\\", c>> \o e :
        c \in {"#", "\"", BQ, "\\", "/", "b", "n", "f", "r", "t", "a", "x", " "},
        e \in {<<>>, <<"a">>} }

\* \u{h} for hex texts h of one to nine digits: ordinary characters in
\* either letter case and with leading zeros, the ends of the scalar
\* ranges, surrogates, and numbers that need more than 32 bits
HexTexts ==
    { <<"a">>, <<"0", "A">>, <<"4", "1">>, <<"0", "0", "4", "1">>,
      <<"e", "9">>, <<"E", "9">>, <<"0", "0", "0", "0", "0", "4", "1">>,
      <<"0", "0", "0", "0", "0", "0", "4", "1">>,
      <<"D", "7", "F", "F">>, <<"D", "8", "0", "0">>, <<"d", "f", "f", "f">>,
      <<"E", "0", "0", "0">>, <<"1", "0", "F", "F", "F", "F">>,
      <<"1", "1", "0", "0", "0", "0">>,
      <<"F", "F", "F", "F", "F", "F", "F">>,
      <<"F", "F", "F", "F", "F", "F", "F", "F">>,
      <<"1", "0", "0", "0", "0", "0", "0", "0", "0">>,
      <<"1", "0", "0", "0", "0", "0", "0", "4", "1">> }
UnicodeTexts == { <<"\\", "u", "{">> \o h \o <<"}">> : h \in HexTexts }

\* an opening delimiter, content, what comes where the closing delimiter
\* should, and what follows
Delimiters == {"\"", BQ}
DelimitedContents ==
    { <<>>, <<"a">>, <<"a", " ", "a">>, <<"a", "#">>, <<"\\", "\"">>, <<"\\", BQ>>,
      <<"\"">>, <<BQ>>, <<"a", "\\", "n">> }
TextsDelimitedBy(d) ==
    { <<d>> \o w \o c \o e :
        w \in DelimitedContents,
        c \in {<<>>, <<d>>, <<"\n", d>>, <<"\t", d>>}, e \in {<<>>, <<"a">>} }
DelimitedTexts == UNION {TextsDelimitedBy(d) : d \in Delimiters}

\* keys and what follows them
KeyWords ==
    { <<>>, <<"a">>, <<"a", "_", "b", "-", "0">>, <<"a", ".", "b", "[", "0", "]">>,
      <<"[", "0", "]">>, <<"\\", "u", "{", "5", "b", "}", "0", "]">>,
      <<"@", "a">>, <<"$", "a">>, <<"a", "\\", "#">>, <<"\\", "t", "a">>,
      <<"[", "\\", "x">>, <<"a", "\\", " ", "b">> }
KeyTails == { <<>>, <<":">>, <<":", " ", "a">>, <<" ">>, <<"\\">>, <<"\\", "x">> }
KeyTexts == { k \o e : k \in KeyWords, e \in KeyTails }

\* a bare control character at the start of the text, after a character
\* and after an opening delimiter
ControlTexts ==
    { w \o <<c>> \o e :
        w \in {<<>>, <<"a">>, <<"\"", "a">>, <<BQ, "a">>},
        c \in {BS, FF, "\r", "\t", "\n"},
        e \in {<<>>, <<"a">>, <<"\"">>, <<BQ>>} }

Inputs ==
    PredicateInputs \cup RawTexts \cup TemplateTexts \cup EscapeTexts
        \cup UnicodeTexts \cup DelimitedTexts \cup KeyTexts \cup ControlTexts
        \cup HexTexts

\* the rules a caller can apply to an input
PredicateRules == 1..19
Excepts == {{}, {"#"}, {"\""}, {BQ, "\n"}}

\* ------------------------------------------------------------------- state
VARIABLES
    input,      \* the text given to Reader::new
    rule,       \* the rule applied to it, "" before any is
    arg,        \* the rule's argument besides the reader, if it has one
    reader,     \* reader.state
    result,     \* what the rule returned
    stderr,     \* the lines written to stderr
    tried,      \* how many alternatives the outermost choice applied
    vrec,       \* whether the value grammar reported no match as recoverable
    file,       \* the text of the report file, None while it does not exist
    given,      \* the testcases first in the file and given to the calls since
    outcome,    \* what the last call of write_report returned
    calls,      \* how many calls of write_report were made
    loop        \* the loop a rule is in when the rule is followed step by step

parservars == <<input, rule, arg, reader, result, stderr, tried, vrec, loop>>
tapvars == <<file, given, outcome, calls>>
vars == <<input, rule, arg, reader, result, stderr, tried, vrec,
          file, given, outcome, calls, loop>>

\* no loop is being followed
NoLoop == [running |-> FALSE, iterations |-> 0, checks |-> FALSE]

\* no report is written while the parser runs
NoReport ==
    /\ file = None
    /\ given = <<>>
    /\ outcome = None
    /\ calls = 0

NoResult == [ok |-> FALSE, pos |-> Pos(0, 0), recoverable |-> FALSE,
             inner |-> [kind |-> "", value |-> <<>>]]

Init ==
    /\ input \in Inputs
    /\ rule = ""
    /\ arg = {}
    /\ reader = NewState
    /\ result = NoResult
    /\ stderr = <<>>
    /\ tried = 0
    /\ vrec = FALSE
    /\ loop = NoLoop
    /\ NoReport

\* a rule of string.rs, which has no side channel, was applied
Returned(name, a, m) ==
    /\ rule = ""
    /\ rule' = name
    /\ arg' = a
    /\ reader' = m.st
    /\ result' = m.r
    /\ stderr' = <<>>
    /\ tried' = 0
    /\ UNCHANGED <<input, vrec, loop>>
    /\ UNCHANGED tapvars

\* a predicate rule was applied, the value grammar behaving as v says
ReturnedLogged(name, a, v, m) ==
    /\ rule = ""
    /\ rule' = name
    /\ arg' = a
    /\ reader' = m.st
    /\ result' = m.r
    /\ stderr' = m.log
    /\ tried' = m.tried
    /\ vrec' = v
    /\ UNCHANGED <<input, loop>>
    /\ UNCHANGED tapvars

\* the result of an alternative applied on its own, outside any choice
Alone(m) == [st |-> m.st, r |-> m.r, log |-> m.log, tried |-> 0]

CallPredicate ==
    \E v \in BOOLEAN, checks \in BOOLEAN :
        ReturnedLogged("predicate", {}, v, predicate(input, reader, v, checks))

CallPredicateFunc ==
    \E v \in BOOLEAN, checks \in BOOLEAN :
        ReturnedLogged("predicate_func", {}, v, predicate_func(input, reader, v, checks))

NotResult(m) == [st |-> m.st, r |-> [not |-> m.not, space0 |-> m.space0]]

CallPredicateNot ==
    Returned("predicate_not", {}, NotResult(predicate_not(input, reader)))

\* one alternative of the predicate grammar applied on its own
CallAlternative ==
    \E i \in PredicateRules, v \in BOOLEAN, checks \in BOOLEAN :
        ReturnedLogged("alternative", {i}, v,
                       Alone(PredicateAlternatives(input, reader, v, checks)[i]))

CallEscapeChar ==
    \E checks \in BOOLEAN :
        Returned("escape_char", {}, escape_char(input, reader, checks))

CallAnyChar ==
    \E except \in Excepts, checks \in BOOLEAN :
        Returned("any_char", except, any_char(except, input, reader, checks))

CallUnquotedStringKey ==
    \E checks \in BOOLEAN :
        Returned("unquoted_string_key", {}, unquoted_string_key(input, reader, checks))

CallQuotedTemplate ==
    \E checks \in BOOLEAN :
        Returned("quoted_template", {}, quoted_template(input, reader, checks))

CallBacktickTemplate ==
    \E checks \in BOOLEAN :
        Returned("backtick_template", {}, backtick_template(input, reader, checks))

\* unquoted_template is applied where earlier rules left the reader: at
\* any offset of a template text, at the start of any other text
StartOffsets ==
    IF input \in TemplateTexts \cup ControlTexts THEN 0..Len(input) ELSE {0}

CallUnquotedTemplate ==
    \E n \in StartOffsets, checks \in BOOLEAN :
        Returned("unquoted_template", {n},
                 unquoted_template(input, ReaderAfter(input, n), checks))

Next ==
    \/ CallPredicate
    \/ CallPredicateFunc
    \/ CallPredicateNot
    \/ CallAlternative
    \/ CallEscapeChar
    \/ CallAnyChar
    \/ CallUnquotedStringKey
    \/ CallQuotedTemplate
    \/ CallBacktickTemplate
    \/ CallUnquotedTemplate

Spec == Init /\ [][Next]_vars

\* ------------------------------------------------------ the report file
\* the testcases given to write_report
Descriptions == {<<"a">>, <<"b", "-", "c">>}
Testcases == {Testcase(d, s) : d \in Descriptions, s \in BOOLEAN}
NewLists == UNION {[1..n -> Testcases] : n \in 0..MaxNew}

\* the file before the first call: missing, empty, or a report written by
\* hand in the spellings parse_tap_report is tested with
HandWritten ==
    <<"1", ".", ".", "2", "\n">>
        \o <<" ", "o", "k", " ", "1", " ", " ", "-", "a", "\n">>
        \o <<"n", "o", "k", " ", "2", " ", "-", " ", "b", "-", "c", "\n", "\n">>
FirstFile(text, testcases) == [text |-> text, testcases |-> testcases]
\* the result line `ok 1 - a` and its end of line
LineA == <<"o", "k", " ", "1", " ", "-", " ", "a", "\n">>

\* reports that parse_tap_report refuses: a header whose first or second
\* token is no number, that has no `..`, that is blank or that starts with
\* a space, and a result line that is none
RefusedFiles ==
    { <<"x", ".", ".", "1", "\n">> \o LineA,
      <<"1", ".", ".", "x", "\n">> \o LineA,
      <<"1", "\n">> \o LineA,
      <<"1", ".", ".", "\n">> \o LineA,
      <<"\n", "1", ".", ".", "1", "\n">> \o LineA,
      <<" ", "1", ".", ".", "1", "\n">> \o LineA,
      <<"1", ".", ".", "2", "\n">> \o LineA \o <<"f", "o", "o", "\n">> }

\* reports with the one result line `ok 1 - a` that parse_tap_report reads:
\* a header that counts other lines, blank lines and blanks around the
\* result line, a header with a third token, numbers with a plus sign
ReadFiles ==
    { <<"5", ".", ".", "9", "\n", "\n", " ", "\t">> \o LineA
          \o <<" ", "\t", "\n", "\r", "\n">>,
      <<"1", ".", ".", "1", ".", ".", "x", "\n">> \o LineA,
      <<"+", "1", ".", ".", "+", "1", "\n">> \o LineA }

FirstFiles ==
    { FirstFile(None, <<>>), FirstFile(<<>>, <<>>),
      FirstFile(HandWritten,
                <<Testcase(<<"a">>, TRUE), Testcase(<<"b", "-", "c">>, FALSE)>>) }

\* no rule of the parser runs while reports are written
NoParse ==
    /\ input = <<>>
    /\ rule = ""
    /\ arg = {}
    /\ reader = NewState
    /\ result = NoResult
    /\ stderr = <<>>
    /\ tried = 0
    /\ vrec = FALSE
    /\ loop = NoLoop

TapInit ==
    /\ NoParse
    /\ \E f \in FirstFiles :
          /\ file = f.text
          /\ given = f.testcases
    /\ outcome = None
    /\ calls = 0

\* write_report(filename, new_testcases) returned m; the file system does
\* not fail
Reported(new_testcases, m) ==
    /\ file' = m.file
    /\ outcome' = m.r
    /\ given' = given \o new_testcases
    /\ calls' = calls + 1
    /\ UNCHANGED parservars

WriteReport ==
    /\ calls < MaxCalls
    /\ \E new_testcases \in NewLists :
          Reported(new_testcases, write_report(file, new_testcases))

TapNext == WriteReport

TapSpec == TapInit /\ [][TapNext]_vars

\* the same calls on a file that may also be one of the refused reports or
\* of the reports read with their oddities
AnyFileInit ==
    /\ NoParse
    /\ \/ \E f \in FirstFiles :
             /\ file = f.text
             /\ given = f.testcases
       \/ /\ file \in RefusedFiles
          /\ given = <<>>
       \/ /\ file \in ReadFiles
          /\ given = <<Testcase(<<"a">>, TRUE)>>
    /\ outcome = None
    /\ calls = 0

AnyFileSpec == AnyFileInit /\ [][TapNext]_vars

\* ------------------------------------------------- rules followed by step
\* the rules whose loop is followed one iteration at a time
LoopRules ==
    {"unquoted_template", "unquoted_string_key", "quoted_template",
     "backtick_template", "hex_value", "zero_or_more_spaces",
     "one_or_more_spaces"}

\* what comes before the loop: the opening delimiter of a delimited
\* template; the other rules enter their loop at once
BeforeLoop(name, s) ==
    CASE name = "quoted_template" -> try_literal(<<"\"">>, s, NewState)
      [] name = "backtick_template" -> try_literal(<<BQ>>, s, NewState)
      [] OTHER -> [st |-> NewState, r |-> Ok(<<>>)]

\* the rule as a whole
RuleResult(name, s, checks) ==
    CASE name = "unquoted_template" -> unquoted_template(s, NewState, checks)
      [] name = "unquoted_string_key" -> unquoted_string_key(s, NewState, checks)
      [] name = "quoted_template" -> quoted_template(s, NewState, checks)
      [] name = "backtick_template" -> backtick_template(s, NewState, checks)
      [] name = "hex_value" -> hex_value(s, NewState, checks)
      [] name = "zero_or_more_spaces" -> zero_or_more_spaces(s, NewState)
      [] name = "one_or_more_spaces" -> one_or_more_spaces(s, NewState)

\* no reader is made yet; a rule is given its text when it is entered
LoopInit ==
    /\ NoParse
    /\ NoReport

\* a reader is made on the text s, the rule is entered and runs up to its
\* loop
Entered(s, name, checks, before) ==
    /\ input' = s
    /\ rule' = name
    /\ reader' = before.st
    /\ loop' = [running |-> before.r.ok, iterations |-> 0, checks |-> checks]
    /\ UNCHANGED <<arg, result, stderr, tried, vrec>>
    /\ UNCHANGED tapvars

\* the texts whose loops are followed: an escape \u{..} is read by one
\* application of escape_char, within one iteration, and is followed as
\* a whole by the rules of Spec
LoopTexts ==
    {s \in Inputs : \A i \in 1..(Len(s) - 1) : ~(s[i] = "\\" /\ s[i + 1] = "u")}

EnterLoop ==
    /\ rule = ""
    /\ \E s \in LoopTexts, name \in LoopRules, checks \in BOOLEAN :
          Entered(s, name, checks, BeforeLoop(name, s))

\* predicate as a whole applied to a reader made on the text s
PredicateOn(s, v, m) ==
    /\ input' = s
    /\ rule' = "predicate"
    /\ reader' = m.st
    /\ result' = m.r
    /\ stderr' = m.log
    /\ tried' = m.tried
    /\ vrec' = v
    /\ UNCHANGED <<arg, loop>>
    /\ UNCHANGED tapvars

ParsePredicate ==
    /\ rule = ""
    /\ \E s \in PredicateInputs, v \in BOOLEAN, checks \in BOOLEAN :
          PredicateOn(s, v, predicate(s, NewState, v, checks))

\* the loop of rule name makes one iteration
Iterated(name, it) ==
    /\ rule = name
    /\ loop.running
    /\ loop.iterations < MaxIterations
    /\ reader' = it.st
    /\ loop' = [loop EXCEPT !.running = it.continues, !.iterations = @ + 1]
    /\ UNCHANGED <<input, rule, arg, result, stderr, tried, vrec>>
    /\ UNCHANGED tapvars

UnquotedTemplateIteration ==
    Iterated("unquoted_template",
             unquoted_iteration(reader, any_char({"#"}, input, reader, loop.checks)))

UnquotedStringKeyIteration ==
    Iterated("unquoted_string_key",
             key_iteration(input, reader, escape_char(input, reader, loop.checks)))

QuotedTemplateIteration ==
    Iterated("quoted_template",
             delimited_iteration(reader, any_char({"\""}, input, reader, loop.checks)))

BacktickTemplateIteration ==
    Iterated("backtick_template",
             delimited_iteration(reader, any_char({BQ, "\n"}, input, reader, loop.checks)))

HexValueIteration ==
    Iterated("hex_value",
             one_or_more_iteration(reader, loop.iterations, hex_digit(input, reader)))

ZeroOrMoreSpacesIteration ==
    Iterated("zero_or_more_spaces",
             zero_or_more_iteration(input, reader, space(input, reader)))

OneOrMoreSpacesIteration ==
    Iterated("one_or_more_spaces",
             one_or_more_iteration(reader, loop.iterations, space(input, reader)))

\* the loop is left, or was never entered: the rule returns m
Left(m) ==
    /\ reader' = m.st
    /\ result' = m.r
    /\ UNCHANGED <<input, rule, arg, stderr, tried, vrec, loop>>
    /\ UNCHANGED tapvars

Return ==
    /\ rule \in LoopRules
    /\ ~loop.running
    /\ result = NoResult
    /\ Left(RuleResult(rule, input, loop.checks))

LoopNext ==
    \/ EnterLoop
    \/ UnquotedTemplateIteration
    \/ UnquotedStringKeyIteration
    \/ QuotedTemplateIteration
    \/ BacktickTemplateIteration
    \/ HexValueIteration
    \/ ZeroOrMoreSpacesIteration
    \/ OneOrMoreSpacesIteration
    \/ Return
    \/ ParsePredicate

\* an iteration of the loop of a rule that was entered
LoopStep ==
    \/ UnquotedTemplateIteration
    \/ UnquotedStringKeyIteration
    \/ QuotedTemplateIteration
    \/ BacktickTemplateIteration
    \/ HexValueIteration
    \/ ZeroOrMoreSpacesIteration
    \/ OneOrMoreSpacesIteration

\* the thread that runs a loop is never suspended: it is one thread and
\* nothing in the rules blocks
FairLoopSpec == LoopInit /\ [][LoopNext]_vars /\ WF_vars(LoopStep)

\* ------------------------------------------------------------- properties
\* text s has the literal lit at offset from (0-based)
HasAt(s, from, lit) ==
    /\ Len(s) >= from + Len(lit)
    /\ SubSeq(s, from + 1, from + Len(lit)) = lit

\* the number of whitespace characters of s from offset from on
RECURSIVE BlanksAt(_, _)
BlanksAt(s, from) ==
    IF from < Len(s) /\ s[from + 1] \in {" ", "\t"} THEN 1 + BlanksAt(s, from + 1) ELSE 0

Not == <<"n", "o", "t">>

\* C1: predicate_not on an input that begins with `not` not followed by
\* whitespace returns negated = false with an empty zero-width Whitespace
\* at the start and leaves the reader where it was; negated = true is
\* returned exactly when `not` is followed by whitespace, with the whole
\* whitespace run returned verbatim and the reader just after it.
C1_PredicateNot ==
    rule = "predicate_not" =>
        LET n == BlanksAt(input, 3) IN
        /\ (HasAt(input, 0, Not) /\ n = 0) =>
              /\ result.not = FALSE
              /\ result.space0 = Whitespace(<<>>, Pos(1, 1), Pos(1, 1))
              /\ reader = NewState
        /\ result.not = TRUE <=> (HasAt(input, 0, Not) /\ n > 0)
        /\ result.not = TRUE =>
              /\ result.space0 =
                    Whitespace(SubSeq(input, 4, 3 + n), Pos(1, 4), Pos(1, 4 + n))
              /\ reader = [cursor |-> 3 + n, pos |-> Pos(1, 4 + n)]

\* `not` is matched and then un-consumed
C1_Witness ==
    /\ rule = "predicate_not"
    /\ HasAt(input, 0, Not)
    /\ Len(input) > 3
    /\ BlanksAt(input, 3) = 0
    /\ result.not = FALSE
    /\ reader = NewState

\* --------------------------------------------- vocabulary of the predicates
\* the reader state n characters into a text that has no line break there
At(n) == [cursor |-> n, pos |-> Pos(1, n + 1)]

\* the spellings of the kinds that take a value: the literal, the kind,
\* whether it is the symbolic form, and its place in the ordered choice
Form(lit, kind, symbol, alt) ==
    [lit |-> lit, kind |-> kind, symbol |-> symbol, alt |-> alt]

Forms ==
    { Form(<<"e", "q", "u", "a", "l", "s">>, "Equal", FALSE, 1),
      Form(<<"=", "=">>, "Equal", TRUE, 1),
      Form(<<"n", "o", "t", "E", "q", "u", "a", "l", "s">>, "NotEqual", FALSE, 2),
      Form(<<"!", "=">>, "NotEqual", TRUE, 2),
      Form(<<"g", "r", "e", "a", "t", "e", "r", "T", "h", "a", "n",
             "O", "r", "E", "q", "u", "a", "l", "s">>, "GreaterThanOrEqual", FALSE, 3),
      Form(<<">", "=">>, "GreaterThanOrEqual", TRUE, 3),
      Form(<<"g", "r", "e", "a", "t", "e", "r", "T", "h", "a", "n">>,
           "GreaterThan", FALSE, 4),
      Form(<<">">>, "GreaterThan", TRUE, 4),
      Form(<<"l", "e", "s", "s", "T", "h", "a", "n",
             "O", "r", "E", "q", "u", "a", "l", "s">>, "LessThanOrEqual", FALSE, 5),
      Form(<<"<", "=">>, "LessThanOrEqual", TRUE, 5),
      Form(<<"l", "e", "s", "s", "T", "h", "a", "n">>, "LessThan", FALSE, 6),
      Form(<<"<">>, "LessThan", TRUE, 6),
      Form(<<"s", "t", "a", "r", "t", "s", "W", "i", "t", "h">>, "StartWith", FALSE, 7),
      Form(<<"e", "n", "d", "s", "W", "i", "t", "h">>, "EndWith", FALSE, 8),
      Form(<<"c", "o", "n", "t", "a", "i", "n", "s">>, "Contain", FALSE, 9),
      Form(<<"i", "n", "c", "l", "u", "d", "e", "s">>, "Include", FALSE, 10),
      Form(<<"m", "a", "t", "c", "h", "e", "s">>, "Match", FALSE, 11) }

\* the keywords of the kinds that take no value
TypeKeywords ==
    { <<"i", "s", "I", "n", "t", "e", "g", "e", "r">>, <<"i", "s", "F", "l", "o", "a", "t">>,
      <<"i", "s", "B", "o", "o", "l", "e", "a", "n">>, <<"i", "s", "S", "t", "r", "i", "n", "g">>,
      <<"i", "s", "C", "o", "l", "l", "e", "c", "t", "i", "o", "n">>,
      <<"i", "s", "D", "a", "t", "e">>, <<"e", "x", "i", "s", "t", "s">>,
      <<"i", "s", "E", "m", "p", "t", "y">> }

\* the kind each well-formed value text is parsed to
KindOfText(v) ==
    CASE v = <<"n", "u", "l", "l">> -> "Null"
      [] v = <<"t", "r", "u", "e">> -> "Bool"
      [] v = <<"2">> -> "Integer"
      [] v = <<"1", ".", "1">> -> "Float"
      [] v = <<"h", "e", "x", ",", "f", "f", ";">> -> "Hex"
      [] v = <<"b", "a", "s", "e", "6", "4", ",", "Y", "Q", "=", "=", ";">> -> "Base64"
      [] v = <<"{", "{", "x", "}", "}">> -> "Expression"
      [] v = <<"\"", "B", "\"">> -> "String"
      [] v = <<"/", "a", "/">> -> "Regex"
      [] OTHER -> "none"

\* a predicate, a predicate function or one alternative was applied
PredicateRun == rule \in {"predicate", "predicate_func", "alternative"}

\* where the predicate function starts: after `not` and its whitespace when
\* predicate read them, at the start of the input otherwise
FuncStart ==
    IF rule = "predicate" /\ HasAt(input, 0, Not) /\ BlanksAt(input, 3) > 0
    THEN 3 + BlanksAt(input, 3) ELSE 0

\* the spellings found at the start of the predicate function
FormsHere == {f \in Forms : HasAt(input, FuncStart, f.lit)}

\* the longest of them, which is the one the text spells
FormHere == CHOOSE f \in FormsHere : \A g \in FormsHere : Len(g.lit) <= Len(f.lit)

\* the run is one that reads the spelling found: the whole choice, or the
\* alternative of that spelling applied alone
ReadsForm ==
    /\ PredicateRun
    /\ FormsHere # {}
    /\ rule = "alternative" => arg = {FormHere.alt}

\* the whitespace after the spelling and the value text after it
KeywordEnd == FuncStart + Len(FormHere.lit)
Gap == BlanksAt(input, KeywordEnd)
ValueStart == KeywordEnd + Gap
ValueText == SubSeq(input, ValueStart + 1, Len(input))

\* the spelling is followed by the whitespace it requires
GapAllowed == FormHere.symbol \/ Gap >= 1

\* the PredicateFuncValue of a successful run
Parsed ==
    CASE rule = "predicate" -> result.val.predicate_func.value
      [] rule = "predicate_func" -> result.val.value
      [] OTHER -> result.val

\* the value kinds an ordering predicate accepts
OrderedKinds == {"Integer", "Float", "String", "Expression"}

\* C2: a predicate function spelled greaterThanOrEquals, >=,
\* lessThanOrEquals or <= is never parsed as the shorter GreaterThan or
\* LessThan: when it succeeds it is the OrEqual kind of that spelling, and
\* followed by the whitespace it requires and a value an ordering predicate
\* accepts it does succeed, at its own place in the choice, with the value
\* text as the value and the whole input consumed.
C2_PrefixOrder ==
    (/\ rule \in {"predicate", "predicate_func"}
     /\ FormsHere # {}
     /\ FormHere.kind \in {"GreaterThanOrEqual", "LessThanOrEqual"}) =>
        /\ result.ok =>
              /\ Parsed.kind = FormHere.kind
              /\ Parsed.operator = FormHere.symbol
              /\ Parsed.space0.value = SubSeq(input, KeywordEnd + 1, ValueStart)
        /\ (GapAllowed /\ KindOfText(ValueText) \in OrderedKinds) =>
              /\ result.ok
              /\ Parsed.value.encoded = ValueText
              /\ reader = At(Len(input))
              /\ tried = FormHere.alt

\* greaterThanOrEquals with a value is parsed by the third alternative
C2_Witness ==
    /\ rule = "predicate_func"
    /\ HasAt(input, 0, <<"g", "r", "e", "a", "t", "e", "r", "T", "h", "a", "n",
                         "O", "r", "E", "q", "u", "a", "l", "s", " ">>)
    /\ result.ok
    /\ result.val.value.kind = "GreaterThanOrEqual"
    /\ reader.cursor = Len(input)
    /\ tried = 3

\* nothing the predicate grammar knows is spelled where the predicate
\* function starts
NoKeywordHere ==
    /\ FormsHere = {}
    /\ \A k \in TypeKeywords : ~HasAt(input, FuncStart, k)

\* every alternative of the choice fails recoverably where the predicate
\* function starts
AllRecoverable ==
    \A checks \in BOOLEAN : \A i \in PredicateRules :
        IsRecoverable(PredicateAlternatives(input, At(FuncStart), vrec, checks)[i].r)

\* C3 as first stated: when none of the 19 kinds is spelled, so that every
\* alternative fails recoverably, predicate returns one fatal Predicate
\* diagnostic at the position where parsing of the predicate began, with or
\* without a leading `not`.
C3_AnchoredAtPredicateStart ==
    (rule = "predicate" /\ NoKeywordHere /\ AllRecoverable) =>
        result = Err(Pos(1, 1), FALSE, "Predicate", <<>>)

\* C3 as amended: when every alternative fails recoverably, as it does when
\* no keyword or operator is spelled there, predicate and predicate_func
\* return one fatal Predicate diagnostic at the position where the predicate
\* function starts, which is after `not` and its whitespace when the
\* predicate is negated; and a Predicate diagnostic is returned in no other
\* case.
C3_AnchoredAtFuncStart ==
    rule \in {"predicate", "predicate_func"} =>
        /\ NoKeywordHere => AllRecoverable
        /\ AllRecoverable =>
              /\ result = Err(At(FuncStart).pos, FALSE, "Predicate", <<>>)
              /\ tried = 19
        /\ (~result.ok /\ result.inner.kind = "Predicate") => AllRecoverable

\* `not`, whitespace and a word that is no predicate: the diagnostic is
\* anchored after the whitespace
C3_Witness ==
    /\ rule = "predicate"
    /\ FuncStart > 0
    /\ NoKeywordHere
    /\ result = Err(At(FuncStart).pos, FALSE, "Predicate", <<>>)

\* C4: when an alternative of the ordered choice returns a fatal
\* diagnostic, the alternatives before it having failed recoverably,
\* predicate_func and predicate return that diagnostic unchanged (position
\* and kind), with the reader where that alternative left it; no later
\* alternative is applied or writes a notice, and the diagnostic is not
\* replaced by the Predicate diagnostic.
C4_FatalShortCircuit ==
    rule \in {"predicate", "predicate_func"} =>
        \A checks \in BOOLEAN :
            LET rs == PredicateAlternatives(input, At(FuncStart), vrec, checks) IN
            \A i \in PredicateRules :
                (IsFatal(rs[i].r) /\ \A j \in 1..(i - 1) : IsRecoverable(rs[j].r)) =>
                    /\ result = rs[i].r
                    /\ reader = rs[i].st
                    /\ tried = i
                    /\ stderr = LogUpTo(rs, i)

\* `startsWith 2`: the seventh alternative fails fatally on the value and
\* that diagnostic is what predicate_func returns
C4_Witness ==
    /\ rule = "predicate_func"
    /\ HasAt(input, 0, <<"s", "t", "a", "r", "t", "s", "W", "i", "t", "h", " ", "2">>)
    /\ result = Err(Pos(1, 12), FALSE, "PredicateValue", <<>>)
    /\ tried = 7

\* the characters that follow a backslash in an escape sequence of one
\* character
SimpleEscapes == {"#", "\"", BQ, "\\", "/", "b", "n", "f", "r", "t"}

\* how far the key characters and one-character escape sequences of s run
\* from offset n
RECURSIVE KeyEnd(_, _)
KeyEnd(s, n) ==
    IF n < Len(s) /\ IsKeyChar(s[n + 1]) THEN KeyEnd(s, n + 1)
    ELSE IF n + 1 < Len(s) /\ s[n + 1] = "\\" /\ s[n + 2] \in SimpleEscapes
    THEN KeyEnd(s, n + 2)
    ELSE n

\* the spellings of the alternative that was applied alone which the input
\* begins with
AltFormsHere ==
    {f \in Forms : arg = {f.alt} /\ HasAt(input, 0, f.lit)}

\* C5 as first stated, for the rules of string.rs it names: a rule that
\* returns a recoverable failure returns with the reader exactly where it
\* was when the rule was entered.
C5_CursorAlwaysRestored ==
    (/\ rule \in {"escape_char", "any_char", "unquoted_string_key",
                  "quoted_template", "backtick_template"}
     /\ IsRecoverable(result)) =>
        reader = NewState

\* C5 as amended: a recoverable failure leaves the reader where the rule
\* was entered when the rule fails on its leading literal (escape_char,
\* quoted_template, backtick_template, a predicate alternative whose
\* spelling is not there), when any_char is at the end of the input and
\* when unquoted_string_key has read no key character.  Otherwise the
\* reader is left further on: any_char leaves it one character past the
\* character it refuses, unquoted_string_key leaves it after the key
\* characters of a key that begins with `[`, and a predicate alternative
\* that hands on a recoverable failure of the value grammar leaves it where
\* the value starts.
C5_RestoredOrLeftAfter ==
    /\ (rule \in {"escape_char", "quoted_template", "backtick_template"}
        /\ IsRecoverable(result)) =>
            reader = NewState
    /\ (rule = "any_char" /\ IsRecoverable(result)) =>
            IF input = <<>> THEN reader = NewState
            ELSE /\ input[1] \in arg \cup (ControlChars \ {"\\"})
                 /\ reader = ReaderRead(input, NewState).st
    /\ (rule = "unquoted_string_key" /\ IsRecoverable(result)) =>
            /\ reader = At(KeyEnd(input, 0))
            /\ reader = NewState <=> ~HasAt(input, 0, <<"[">>)
    /\ (rule = "alternative" /\ IsRecoverable(result)) =>
            IF AltFormsHere = {} THEN reader = NewState
            ELSE /\ vrec
                 /\ result.inner.kind = "PredicateValue"
                 /\ \E f \in AltFormsHere :
                        reader = At(Len(f.lit) + BlanksAt(input, Len(f.lit)))

\* any_char refuses the first character and leaves the reader after it
C5_Witness ==
    /\ rule = "any_char"
    /\ IsRecoverable(result)
    /\ input # <<>>
    /\ input[1] \in arg
    /\ reader.cursor = 1

\* the run read a spelling of one of kinds, the whitespace that spelling
\* requires and a well-formed value text
ValueRead(kinds) ==
    /\ ReadsForm
    /\ FormHere.kind \in kinds
    /\ GapAllowed
    /\ KindOfText(ValueText) # "none"

\* the outcome when exactly the value kinds in accepted pass the check made
\* after the value is parsed: the predicate with that value, or a fatal
\* PredicateValue diagnostic at the start of the value
KindChecked(accepted) ==
    IF KindOfText(ValueText) \in accepted
    THEN /\ result.ok
         /\ Parsed.kind = FormHere.kind
         /\ Parsed.value.kind = KindOfText(ValueText)
         /\ Parsed.value.encoded = ValueText
    ELSE result = Err(At(ValueStart).pos, FALSE, "PredicateValue", <<>>)

\* C6: an ordering predicate (GreaterThan, GreaterThanOrEqual, LessThan,
\* LessThanOrEqual, in either spelling) succeeds exactly when its value is
\* an Integer, a Float, a String or an Expression; with any other value
\* kind (Null, Bool, Hex, Base64, Regex) it fails with a fatal
\* PredicateValue diagnostic at the start of the value.
C6_OrderingValues ==
    ValueRead({"GreaterThan", "GreaterThanOrEqual", "LessThan", "LessThanOrEqual"}) =>
        KindChecked(OrderedKinds)

\* `greaterThan /a/` is rejected at the regex, column 13
C6_Witness ==
    /\ rule = "predicate_func"
    /\ input = <<"g", "r", "e", "a", "t", "e", "r", "T", "h", "a", "n", " ", "/", "a", "/">>
    /\ result = Err(Pos(1, 13), FALSE, "PredicateValue", <<>>)

\* C7: StartsWith, EndsWith and Contains succeed exactly when the value is
\* a String, a Hex or a Base64; with any other value kind (Null, Bool,
\* Integer, Float, Expression, Regex) they fail with a fatal PredicateValue
\* diagnostic at the start of the value.
C7_StringOrBytesValues ==
    ValueRead({"StartWith", "EndWith", "Contain"}) =>
        KindChecked({"String", "Hex", "Base64"})

\* `startsWith 2` is rejected at the number, column 12
C7_Witness ==
    /\ rule = "predicate"
    /\ input = <<"s", "t", "a", "r", "t", "s", "W", "i", "t", "h", " ", "2">>
    /\ result = Err(Pos(1, 12), FALSE, "PredicateValue", <<>>)

\* the value kinds of the value grammar
ValueKinds ==
    {"Null", "Bool", "Integer", "Float", "Hex", "Base64", "Expression", "String", "Regex"}

\* C8: Matches succeeds exactly when the value is a String or a Regex and
\* fails otherwise with a fatal PredicateValue diagnostic at the start of
\* the value; Equal, NotEqual and Includes succeed with a value of any kind.
C8_MatchAndAnyValues ==
    /\ ValueRead({"Match"}) => KindChecked({"String", "Regex"})
    /\ ValueRead({"Equal", "NotEqual", "Include"}) => KindChecked(ValueKinds)

\* `matches /a/` is accepted with the regular expression as its value
C8_Witness ==
    /\ rule = "predicate_func"
    /\ input = <<"m", "a", "t", "c", "h", "e", "s", " ", "/", "a", "/">>
    /\ result.ok
    /\ result.val.value.kind = "Match"
    /\ result.val.value.value.kind = "Regex"

\* the value kinds the check of a predicate kind lets through
AcceptedBy(kind) ==
    CASE kind \in {"GreaterThan", "GreaterThanOrEqual", "LessThan", "LessThanOrEqual"} ->
            OrderedKinds
      [] kind \in {"StartWith", "EndWith", "Contain"} -> {"String", "Hex", "Base64"}
      [] kind = "Match" -> {"String", "Regex"}
      [] OTHER -> ValueKinds

\* C9: a word spelling (equals, notEquals, greaterThan,
\* greaterThanOrEquals, lessThan, lessThanOrEquals, startsWith, endsWith,
\* contains, matches, includes) that is not followed by whitespace never
\* succeeds; a symbolic spelling (==, !=, >, >=, <, <=) followed at once by
\* a value it accepts succeeds with an empty zero-width Whitespace; and in
\* every success the Whitespace holds the run of blanks between the
\* spelling and the value verbatim, with its span.
C9_WhitespaceBySpelling ==
    ReadsForm =>
        /\ (~FormHere.symbol /\ Gap = 0) => ~result.ok
        /\ (FormHere.symbol /\ Gap = 0
            /\ KindOfText(ValueText) \in AcceptedBy(FormHere.kind)) =>
                /\ result.ok
                /\ Parsed.space0 =
                      Whitespace(<<>>, At(KeywordEnd).pos, At(KeywordEnd).pos)
        /\ result.ok =>
                Parsed.space0 =
                    Whitespace(SubSeq(input, KeywordEnd + 1, ValueStart),
                               At(KeywordEnd).pos, At(ValueStart).pos)

\* `==true`: the symbolic spelling with no whitespace before the value
C9_Witness ==
    /\ rule = "predicate_func"
    /\ input = <<"=", "=", "t", "r", "u", "e">>
    /\ result.ok
    /\ result.val.value.space0 = Whitespace(<<>>, Pos(1, 3), Pos(1, 3))

\* the kinds that have a word spelling and a symbolic one
TwoSpellingKinds ==
    {"Equal", "NotEqual", "GreaterThan", "GreaterThanOrEqual",
     "LessThan", "LessThanOrEqual"}

\* the other spelling of the kind spelled here
Sibling == CHOOSE g \in Forms : g.kind = FormHere.kind /\ g.symbol # FormHere.symbol

\* the input with the spelling replaced by the other one
SiblingInput ==
    SubSeq(input, 1, FuncStart) \o Sibling.lit \o SubSeq(input, KeywordEnd + 1, Len(input))

\* the same rule applied to that input, the value grammar behaving alike
SiblingRun(checks) ==
    CASE rule = "predicate" -> predicate(SiblingInput, NewState, vrec, checks)
      [] rule = "predicate_func" -> predicate_func(SiblingInput, NewState, vrec, checks)
      [] OTHER ->
            Alone(PredicateAlternatives(SiblingInput, NewState, vrec, checks)[FormHere.alt])

\* the PredicateFuncValue of a successful sibling run
SiblingParsed(other) ==
    CASE rule = "predicate" -> other.r.val.predicate_func.value
      [] rule = "predicate_func" -> other.r.val.value
      [] OTHER -> other.r.val

\* the word and the symbol of the kind spelled here
WordHere == IF FormHere.symbol THEN Sibling.lit ELSE FormHere.lit
SymbolHere == IF FormHere.symbol THEN FormHere.lit ELSE Sibling.lit

\* what this run and the run on the other spelling have in common
SameButSpelling(other) ==
    /\ other.r.ok = result.ok
    /\ (~result.ok /\ ~vrec) => other.r.inner = result.inner
    /\ result.ok =>
          /\ SiblingParsed(other).kind = Parsed.kind
          /\ SiblingParsed(other).value.kind = Parsed.value.kind
          /\ SiblingParsed(other).value.encoded = Parsed.value.encoded
          /\ SiblingParsed(other).space0.value = Parsed.space0.value
          /\ Parsed.operator = FormHere.symbol
          /\ SiblingParsed(other).operator = Sibling.symbol
    /\ IF FormHere.symbol
       THEN /\ stderr = <<>>
            /\ other.log # <<>>
            /\ other.log[1] = Deprecated(WordHere, SymbolHere)
            /\ result.ok => Len(other.log) = 1
       ELSE /\ other.log = <<>>
            /\ stderr # <<>>
            /\ stderr[1] = Deprecated(WordHere, SymbolHere)
            /\ result.ok => Len(stderr) = 1

\* C10: for each kind with two spellings (Equal, NotEqual, GreaterThan,
\* GreaterThanOrEqual, LessThan, LessThanOrEqual) and every value text, the
\* word spelling followed by whitespace and the value and the symbolic
\* spelling followed by the same whitespace and value both succeed or both
\* fail (with the same diagnostic kind when the value grammar's failure is
\* fatal); when they succeed they give the same
\* kind and the same value and differ in the operator flag, which is false
\* for the word and true for the symbol; the deprecation notice is written
\* for the word spelling and never for the symbolic one.
C10_SpellingEquivalence ==
    (ReadsForm /\ FormHere.kind \in TwoSpellingKinds /\ Gap >= 1) =>
        \A checks \in BOOLEAN : SameButSpelling(SiblingRun(checks))

\* `equals true` parsed to Equal with the operator flag off and one notice
C10_Witness ==
    /\ rule = "predicate_func"
    /\ input = <<"e", "q", "u", "a", "l", "s", " ", "t", "r", "u", "e">>
    /\ result.ok
    /\ result.val.value.kind = "Equal"
    /\ result.val.value.operator = FALSE
    /\ stderr = <<Deprecated(<<"e", "q", "u", "a", "l", "s">>, <<"=", "=">>)>>

\* a word spelling of a kind that also has a symbol starts the predicate
\* function
WordFormHere ==
    /\ FormsHere # {}
    /\ ~FormHere.symbol
    /\ FormHere.kind \in TwoSpellingKinds

SameOutcome(other) ==
    /\ other.r.ok = result.ok
    /\ ~result.ok => other.r.recoverable = result.recoverable

EscapedSpace == <<"\\", "u", "{", "2", "0", "}">>
EscapedBracket == <<"\\", "u", "{", "5", "b", "}">>

\* the length of the unit at offset n, 0 when it is none of the three (a
\* raw brace, which starts an expression, is left out too)
UnitLen(s, n) ==
    IF s[n + 1] \in {"{", "}"} THEN 0
    ELSE IF s[n + 1] # "\\" THEN 1
    ELSE IF n + 1 < Len(s) /\ s[n + 2] \in SimpleEscapes THEN 2
    ELSE IF HasAt(s, n, EscapedSpace) \/ HasAt(s, n, EscapedBracket) THEN 6
    ELSE 0

\* the character an escape letter stands for
Unescaped(c) ==
    CASE c = "b" -> BS [] c = "n" -> "\n" [] c = "f" -> FF
      [] c = "r" -> "\r" [] c = "t" -> "\t" [] OTHER -> c

\* the character the unit at offset n decodes to
UnitChar(s, n) ==
    IF s[n + 1] # "\\" THEN s[n + 1]
    ELSE IF HasAt(s, n, EscapedSpace) THEN " "
    ELSE IF HasAt(s, n, EscapedBracket) THEN "["
    ELSE Unescaped(s[n + 2])

\* the offset at which the run of units from n ends: at the end of the
\* text, before a raw character of stops, or before what is no unit
RECURSIVE RunEnd(_, _, _)
RunEnd(s, n, stops) ==
    IF n >= Len(s) THEN n
    ELSE IF s[n + 1] \in stops \/ UnitLen(s, n) = 0 THEN n
    ELSE RunEnd(s, n + UnitLen(s, n), stops)

\* the run from the start ends at the end of the text or at a stop
RunEndsAtStop(s, stops) ==
    RunEnd(s, 0, stops) = Len(s) \/ s[RunEnd(s, 0, stops) + 1] \in stops

\* the offset just after the last unit of [n, e) that is not a raw space,
\* last when there is none
RECURSIVE KeptEnd(_, _, _, _)
KeptEnd(s, n, e, last) ==
    IF n >= e THEN last
    ELSE KeptEnd(s, n + UnitLen(s, n), e,
                 IF s[n + 1] = " " THEN last ELSE n + UnitLen(s, n))

\* the decoded characters of the units of [n, e)
RECURSIVE Decoded(_, _, _)
Decoded(s, n, e) ==
    IF n >= e THEN <<>>
    ELSE <<UnitChar(s, n)>> \o Decoded(s, n + UnitLen(s, n), e)

\* the elements of a template that holds no expression
LiteralOf(s, n, e) ==
    IF n >= e THEN <<>>
    ELSE <<StringElement(Decoded(s, n, e), SubSeq(s, n + 1, e))>>

\* what unquoted_template returns for a text whose run ends at a stop
TrimmedAt(k) ==
    /\ result = Ok(Template(None, LiteralOf(input, 0, k), Pos(1, 1), At(k).pos))
    /\ reader = At(k)

TemplateTrimmed(stops) ==
    (rule = "unquoted_template" /\ arg = {0} /\ RunEndsAtStop(input, stops)) =>
        TrimmedAt(KeptEnd(input, 0, RunEnd(input, 0, stops), 0))

\* the raw characters that end an unquoted template besides the end of the
\* input
Terminators == {"#", "\n", "\r", "\t", BS, FF}

StartOffset == CHOOSE n \in arg : TRUE
StartOffsetOf == IF rule = "unquoted_template" THEN StartOffset ELSE 0
StartState == ReaderAfter(input, StartOffset)

\* C13: unquoted_template applied with the cursor at the end of the input,
\* or just before an unescaped `#` or a line break, succeeds with no
\* delimiter, no element and a zero-width span at the starting position,
\* and leaves the cursor where it was.
C13_EmptyTemplate ==
    (/\ rule = "unquoted_template"
     /\ \/ StartOffset = Len(input)
        \/ input[StartOffset + 1] \in {"#", "\n"}) =>
        /\ result = Ok(Template(None, <<>>, StartState.pos, StartState.pos))
        /\ reader = StartState

\* `a # a` entered at the `#`, three characters in
C13_Witness ==
    /\ rule = "unquoted_template"
    /\ input = <<"a", " ", "#", " ", "a">>
    /\ arg = {2}
    /\ result.ok
    /\ result.val.elements = <<>>
    /\ reader = At(2)

\* C14: escape_char fails recoverably with the cursor unmoved when the
\* next character is not a backslash; after a backslash each of # " ` \ /
\* decodes to itself and b, n, f, r, t decode to backspace, line feed, form
\* feed, carriage return and tab, two characters being consumed; any other
\* character but u after the backslash, and the end of the input there, is
\* a fatal EscapeChar diagnostic at the character after the backslash.
C14_EscapeDecoding ==
    rule = "escape_char" =>
        /\ (input = <<>> \/ input[1] # "\\") =>
              /\ IsRecoverable(result)
              /\ reader = NewState
        /\ (Len(input) >= 2 /\ input[1] = "\\" /\ input[2] \in SimpleEscapes) =>
              /\ result = Ok(Unescaped(input[2]))
              /\ reader = At(2)
        /\ (/\ input # <<>>
            /\ input[1] = "\\"
            /\ Len(input) = 1 \/ input[2] \notin SimpleEscapes \cup {"u"}) =>
              result = Err(Pos(1, 2), FALSE, "EscapeChar", <<>>)

\* `\/a` decodes to `/` and leaves the cursor before the `a`
C14_Witness ==
    /\ rule = "escape_char"
    /\ input = <<"\\", "/", "a">>
    /\ result = Ok("/")
    /\ reader = At(2)

\* the input is \u{h} with h one or more hex digits
IsUnicodeEscape ==
    /\ Len(input) >= 5
    /\ HasAt(input, 0, <<"\\", "u", "{">>)
    /\ input[Len(input)] = "}"
    /\ \A i \in 4..(Len(input) - 1) : input[i] \in HexDigits

\* one more than the largest scalar value, 10FFFF
ScalarCap == 1114112

\* the digits of s from the i-th to the last but one read as a base-16
\* number, the first digit most significant; any number above 10FFFF is
\* given as ScalarCap
RECURSIVE HexNumber(_, _, _)
HexNumber(s, i, acc) ==
    IF i >= Len(s) THEN acc
    ELSE IF acc * 16 + hex_digit_value(s[i]) >= ScalarCap
    THEN HexNumber(s, i + 1, ScalarCap)
    ELSE HexNumber(s, i + 1, acc * 16 + hex_digit_value(s[i]))

\* what the escape \u{h} stands for when h is the number v
DecodesTo(v) ==
    IF v < ScalarCap /\ ~(v >= 55296 /\ v <= 57343)
    THEN /\ result = Ok(CharOf(v))
         /\ reader = At(Len(input))
    ELSE /\ IsFatal(result)
         /\ result.inner.kind = "Unicode"

\* C15 as stated: for every non-empty text h of hex digits, of any length
\* and letter case and with any number of leading zeros, \u{h} decodes to
\* the character whose scalar value is h in base 16 when that is a scalar
\* value, and is a fatal Unicode diagnostic, never a character and never a
\* crash, when it is a surrogate or above 10FFFF, numbers that need more
\* than 32 bits included.
C15_UnicodeEscape ==
    (rule = "escape_char" /\ IsUnicodeEscape) => DecodesTo(HexNumber(input, 4, 0))

\* the same for texts of at most seven digits
C15_UpToSevenDigits ==
    (rule = "escape_char" /\ IsUnicodeEscape /\ Len(input) <= 11) =>
        DecodesTo(HexNumber(input, 4, 0))

\* \u{00000041}, eight digits: the thread panics on the overflow of weight
C15_Witness ==
    /\ rule = "escape_char"
    /\ input = <<"\\", "u", "{", "0", "0", "0", "0", "0", "0", "4", "1", "}">>
    /\ ~result.ok
    /\ result.inner.kind = "panic"

\* the rule applied is the template delimited by d
DelimitedBy(d) ==
    \/ d = "\"" /\ rule = "quoted_template"
    \/ d = BQ /\ rule = "backtick_template"

\* where the content of a template delimited by d ends: before the first
\* unescaped d or bare control character, or at the end of the input
ContentEnd(d) == RunEnd(input, 1, {d, "\n", "\r", "\t", BS, FF})

\* the content is a run of units up to its end
ContentWellFormed(d) ==
    \/ ContentEnd(d) = Len(input)
    \/ input[ContentEnd(d) + 1] \in {d, "\n", "\r", "\t", BS, FF}

Closed(d) == ContentEnd(d) < Len(input) /\ input[ContentEnd(d) + 1] = d

\* C16: quoted_template and backtick_template fail recoverably with the
\* cursor unmoved when the input does not start with the opening delimiter;
\* after it the content runs to the first unescaped occurrence of the same
\* delimiter, an escaped delimiter being content and, between backticks, a
\* bare double quote too; on success the cursor is just after the closing
\* delimiter whatever follows and the span runs from the opening delimiter
\* to there; when a bare line break or the end of the input (or any bare
\* control character) comes before the closing delimiter the result is a
\* fatal diagnostic placed where the closing delimiter was expected.
C16_DelimitedTemplates ==
    \A d \in Delimiters :
        DelimitedBy(d) =>
            /\ ~HasAt(input, 0, <<d>>) =>
                  /\ IsRecoverable(result)
                  /\ reader = NewState
            /\ (HasAt(input, 0, <<d>>) /\ ContentWellFormed(d) /\ Closed(d)) =>
                  /\ result = Ok(Template(d, LiteralOf(input, 1, ContentEnd(d)),
                                          Pos(1, 1), At(ContentEnd(d) + 1).pos))
                  /\ reader = At(ContentEnd(d) + 1)
            /\ (HasAt(input, 0, <<d>>) /\ ContentWellFormed(d) /\ ~Closed(d)) =>
                  result = Err(At(ContentEnd(d)).pos, FALSE, "Expecting", <<d>>)
            /\ result.ok => (HasAt(input, 0, <<d>>) /\ Closed(d))

\* a bare double quote between backticks, and a character after the
\* closing backtick
C16_Witness ==
    /\ rule = "backtick_template"
    /\ input = <<BQ, "\"", BQ, "a">>
    /\ result.ok
    /\ result.val.elements = <<StringElement(<<"\"">>, <<"\"">>)>>
    /\ reader = At(3)

\* how far the key runs from offset n: over key characters and escape
\* units, up to the first other character or the first backslash that
\* starts no unit
RECURSIVE KeyRunEnd(_, _)
KeyRunEnd(s, n) ==
    IF n >= Len(s) THEN n
    ELSE IF s[n + 1] = "\\"
    THEN IF UnitLen(s, n) = 0 THEN n ELSE KeyRunEnd(s, n + UnitLen(s, n))
    ELSE IF IsKeyChar(s[n + 1]) THEN KeyRunEnd(s, n + 1)
    ELSE n

\* the key stops at a backslash, which then starts an invalid escape (the
\* escapes \u{..} other than the two units are left out)
StopsAtBackslash(e) == e < Len(input) /\ input[e + 1] = "\\"
StopsAtOtherUnicode(e) == e + 1 < Len(input) /\ input[e + 1] = "\\" /\ input[e + 2] = "u"

KeyDecoded(e) ==
    IF StopsAtBackslash(e)
    THEN result = Err(At(e + 1).pos, FALSE, "EscapeChar", <<>>)
    ELSE /\ reader = At(e)
         /\ IF e = 0 \/ input[1] = "["
            THEN result = Err(Pos(1, 1), TRUE, "Expecting", <<"key string">>)
            ELSE result = Ok([value |-> Decoded(input, 0, e),
                              encoded |-> SubSeq(input, 1, e),
                              quotes |-> FALSE,
                              source_info |-> SourceInfo(Pos(1, 1), At(e).pos)])

\* C17: the key read by unquoted_string_key is the longest prefix made of
\* escape sequences and of characters that are alphanumeric or one of
\* _ - . [ ] @ $, and the first other character is not consumed; when that
\* prefix is empty or the raw input begins with a bare `[` the rule fails
\* recoverably with Expecting "key string" at the start, while a key that
\* begins with the escape \u{5b} is accepted; an invalid escape met while
\* the key is read is a fatal EscapeChar; on success value is the decoded
\* text, encoded the raw text consumed and the span runs from the start to
\* the final cursor.
C17_KeyDecoding ==
    (rule = "unquoted_string_key" /\ ~StopsAtOtherUnicode(KeyRunEnd(input, 0))) =>
        KeyDecoded(KeyRunEnd(input, 0))

\* the key `\u{5b}0]` before a colon: accepted, decoded to `[0]`
C17_Witness ==
    /\ rule = "unquoted_string_key"
    /\ input = <<"\\", "u", "{", "5", "b", "}", "0", "]", ":">>
    /\ result.ok
    /\ result.val.value = <<"[", "0", "]">>
    /\ result.val.encoded = <<"\\", "u", "{", "5", "b", "}", "0", "]">>
    /\ reader = At(8)

\* the control characters that no template takes bare
BareControls == {BS, "\n", FF, "\r", "\t"}

\* what a template rule consumed of the input: from where it was entered to
\* where it left the cursor
Consumed == SubSeq(input, StartOffsetOf + 1, reader.cursor)

\* no character of the text t is a control character; an escape is spelt
\* with a letter, so a control character in the raw text is always bare
NoControlIn(t) == \A i \in 1..Len(t) : t[i] \notin BareControls

\* C19: any_char applied where the next raw character is a bare backspace,
\* line feed, form feed, carriage return or tab, or one of the caller's
\* excluded characters, or at the end of the input, returns a recoverable
\* Expecting "char" diagnostic positioned at that character; every other
\* raw character but the backslash, `#` when not excluded and the space
\* included, is returned with its one-character text and the cursor after
\* it; a template that unquoted_template, quoted_template or
\* backtick_template returns has consumed no bare control character and
\* holds none in the encoded text of its elements.
C19_BareControlRefused ==
    /\ (rule = "any_char" /\ (input = <<>> \/ input[1] # "\\")) =>
          IF input = <<>> \/ input[1] \in arg \cup BareControls
          THEN result = Err(Pos(1, 1), TRUE, "Expecting", <<"char">>)
          ELSE /\ result = Ok([c |-> input[1], s |-> <<input[1]>>])
               /\ reader = At(1)
    /\ (rule \in {"unquoted_template", "quoted_template", "backtick_template"}
        /\ result.ok) =>
          /\ NoControlIn(Consumed)
          /\ \A i \in 1..Len(result.val.elements) :
                result.val.elements[i].type = "String" =>
                    NoControlIn(result.val.elements[i].encoded)

\* a tab before `a`, no character excluded: refused at the tab
C19_Witness ==
    /\ rule = "any_char"
    /\ arg = {}
    /\ input = <<"\t", "a">>
    /\ result = Err(Pos(1, 1), TRUE, "Expecting", <<"char">>)

\* -------------------------------------------- vocabulary of the report file
\* the result line of the i-th testcase, and the text of a report that
\* lists testcases
ResultLine(testcase, i) ==
    (IF testcase.success THEN <<"o", "k", " ">> ELSE <<"n", "o", "t", " ", "o", "k", " ">>)
        \o format_usize(i) \o <<" ", "-", " ">> \o testcase.description

RECURSIVE ResultLines(_, _)
ResultLines(testcases, i) ==
    IF i > Len(testcases) THEN <<>>
    ELSE ResultLine(testcases[i], i) \o <<"\n">> \o ResultLines(testcases, i + 1)

Lists(testcases) ==
    /\ file # None
    /\ file = <<"1", ".", ".">> \o format_usize(Len(testcases)) \o <<"\n">>
                \o ResultLines(testcases, 1)

\* C18 as stated: every call of write_report on one file succeeds, lists
\* with failed testcases included, and afterwards the file holds the header
\* 1..N and the N result lines of the testcases that were in the file
\* before, in order, followed by those given to the calls, in call order.
C18_AppendsEveryList ==
    calls > 0 =>
        /\ outcome.ok
        /\ Lists(given)

\* a second call after a failed testcase was written: the call fails and
\* the file still holds the `not ok` line
C18_Witness ==
    /\ calls = 2
    /\ ~outcome.ok
    /\ file = <<"1", ".", ".", "1", "\n",
                "n", "o", "t", " ", "o", "k", " ", "1", " ", "-", " ", "a", "\n">>

\* ------------------------------------------------- vocabulary of the loops
\* the rule has returned
Returns == rule # "" /\ ~loop.running /\ result # NoResult

\* what was returned is a value or a diagnostic of the parser
ValueOrDiagnostic == result.ok \/ result.inner.kind \notin {"", "panic"}

\* an iteration after which the loop goes on has moved the cursor on
Advances == (loop.running /\ loop'.running) => reader'.cursor > reader.cursor

\* the iterations made never outnumber the characters passed, so that
\* MaxIterations ends no loop
WithinInput ==
    /\ result = NoResult => loop.iterations <= reader.cursor + 1
    /\ loop.running => loop.iterations <= reader.cursor
    /\ reader.cursor <= Len(input)
    /\ loop.iterations < MaxIterations

\* where the loop of the rule leaves the reader, as the rule as a whole
\* computes it
LoopExit ==
    CASE rule = "unquoted_template" ->
             unquoted_loop(input, NewState, <<>>, <<>>, NewState, loop.checks).st
      [] rule = "unquoted_string_key" ->
             key_loop(input, NewState, <<>>, <<>>, loop.checks).st
      [] rule = "quoted_template" ->
             delimited_loop({"\""}, input, At(1), <<>>, Pos(1, 1), loop.checks).st
      [] rule = "backtick_template" ->
             delimited_loop({BQ, "\n"}, input, At(1), <<>>, Pos(1, 1), loop.checks).st
      [] rule = "zero_or_more_spaces" -> zero_or_more_space(input, NewState)
      [] OTHER -> reader

\* the steps agree with the rule as a whole
AgreesWithRule ==
    (rule \in LoopRules /\ ~loop.running /\ loop.iterations > 0 /\ result = NoResult) =>
        reader = LoopExit

\* C20 as stated: in each character loop (unquoted_template,
\* unquoted_string_key, quoted_template, backtick_template, the repetition
\* of hex_value and of the whitespace rules) every iteration that does not
\* leave the loop moves the cursor on by at least one character, and every
\* rule, predicate as a whole included, terminates with a value or a
\* diagnostic on every input.
C20_AdvancesAndReturns ==
    /\ [][Advances]_vars
    /\ loop.running ~> ~loop.running
    /\ [](Returns => ValueOrDiagnostic)

\* the same but for what is returned: every loop advances and every rule
\* ends
C20_AdvancesAndEnds ==
    /\ [][Advances]_vars
    /\ [](WithinInput /\ AgreesWithRule)
    /\ loop.running ~> ~loop.running

\* hex_value on 100000041 with overflow checks: the loop is left after
\* ten iterations, nine of them digits, and the thread panics
C20_Witness ==
    /\ rule = "hex_value"
    /\ input = <<"1", "0", "0", "0", "0", "0", "0", "4", "1">>
    /\ loop.iterations = 10
    /\ ~loop.running
    /\ ~result.ok
    /\ result.inner.kind = "panic"

\* ------------------------------------------------ vocabulary of commitment
\* the run read a keyword or an operator of a kind that takes a value
KeywordMatched ==
    \/ rule = "alternative" /\ AltFormsHere # {}
    \/ rule \in {"predicate", "predicate_func"} /\ FormsHere # {}

\* the choice stopped at the alternative whose spelling is there
StoppedAtKeyword ==
    rule \in {"predicate", "predicate_func"} => tried = FormHere.alt

\* a delimited template was applied to a text that opens with its delimiter
DelimiterMatched ==
    \E d \in Delimiters : DelimitedBy(d) /\ HasAt(input, 0, <<d>>)

\* C21 as stated: once a predicate alternative has matched its keyword or
\* operator it never returns a recoverable failure, whatever the
\* recoverability of a failure of the value grammar, so that the ordered
\* choice applies no alternative after it; and a delimited template never
\* returns a recoverable failure after its opening delimiter.
C21_Commitment ==
    /\ KeywordMatched =>
          /\ ~IsRecoverable(result)
          /\ StoppedAtKeyword
    /\ DelimiterMatched => ~IsRecoverable(result)

\* the same when the value grammar reports every failure as fatal
C21_CommitmentOnFatalValues ==
    /\ (KeywordMatched /\ ~vrec) =>
          /\ ~IsRecoverable(result)
          /\ StoppedAtKeyword
    /\ DelimiterMatched => ~IsRecoverable(result)

\* `equals` and a space before a text that is no value, the value grammar
\* failing recoverably: the first alternative hands that failure on
C21_Witness ==
    /\ rule = "alternative"
    /\ arg = {1}
    /\ vrec
    /\ HasAt(input, 0, <<"e", "q", "u", "a", "l", "s", " ">>)
    /\ IsRecoverable(result)
    /\ result.inner.kind = "PredicateValue"

\* the same text given to predicate_func: all nineteen alternatives are
\* applied and the diagnostic is the one of a text that spells no predicate
C21_Backtracked ==
    /\ rule = "predicate_func"
    /\ vrec
    /\ HasAt(input, 0, <<"e", "q", "u", "a", "l", "s", " ">>)
    /\ tried = 19
    /\ result = Err(Pos(1, 1), FALSE, "Predicate", <<>>)

\* ------------------------------------------------------ vocabulary of spans
\* the order of positions: by line, then by column
PosLeq(a, b) == a.line < b.line \/ (a.line = b.line /\ a.column <= b.column)

\* a span of a result: where the rule that built it was entered (an offset
\* of the input) and whether what it covers is an empty whitespace or an
\* unquoted template without element
Span(info, from, empty) == [info |-> info, from |-> from, empty |-> empty]

WhitespaceSpan(w, from) == Span(w.source_info, from, w.value = <<>>)

\* the whitespace of predicate_not: read after `not` when the predicate is
\* negated, empty at the start otherwise
NotSpan(n) == WhitespaceSpan(n.space0, IF n.not THEN 3 ELSE 0)

\* the PredicateFuncValue takes a value
TakesValue(v) == "space0" \in DOMAIN v

\* the whitespace between the spelling and the value
ValueSpans == IF TakesValue(Parsed) THEN {WhitespaceSpan(Parsed.space0, KeywordEnd)} ELSE {}

\* the spans of the value a successful run returned
Spans ==
    CASE rule = "predicate_not" -> {NotSpan(result)}
      [] rule = "predicate" ->
            {NotSpan(result.val),
             Span(result.val.predicate_func.source_info, FuncStart, FALSE)}
                \cup ValueSpans
      [] rule = "predicate_func" ->
            {Span(result.val.source_info, 0, FALSE)} \cup ValueSpans
      [] rule = "alternative" -> ValueSpans
      [] rule = "unquoted_template" ->
            {Span(result.val.source_info, StartOffset, result.val.elements = <<>>)}
      [] rule \in {"quoted_template", "backtick_template", "unquoted_string_key"} ->
            {Span(result.val.source_info, 0, FALSE)}
      [] OTHER -> {}

\* the run returned a value that has spans
HasSpans == rule = "predicate_not" \/ (result # NoResult /\ result.ok)

\* C22: every span of a successful parse starts at the position the cursor
\* had when its rule was entered, ends at a position the cursor reached
\* during the rule, start not after end in the order of positions, and has
\* no width only when it is an empty whitespace or an unquoted template
\* without element.
C22_SpansWellFormed ==
    HasSpans =>
        \A sp \in Spans :
            /\ PosLeq(sp.info.start, sp.info.end)
            /\ sp.info.start = ReaderAfter(input, sp.from).pos
            /\ \E k \in sp.from..reader.cursor :
                  sp.info.end = ReaderAfter(input, k).pos
            /\ sp.info.start = sp.info.end => sp.empty

\* a negated predicate with whitespace before its value: three spans
C22_Witness ==
    /\ rule = "predicate"
    /\ result.ok
    /\ result.val.not
    /\ TakesValue(Parsed)
    /\ Parsed.space0.value # <<>>
    /\ Cardinality(Spans) = 3

\* an empty quoted template: its span covers the two delimiters
C22_EmptyQuoted ==
    /\ rule = "quoted_template"
    /\ result.ok
    /\ result.val.elements = <<>>
    /\ result.val.source_info = SourceInfo(Pos(1, 1), Pos(1, 3))

\* an unquoted template without element entered after the start of the text
C22_EmptyUnquoted ==
    /\ rule = "unquoted_template"
    /\ result.ok
    /\ StartOffset > 0
    /\ result.val.elements = <<>>
    /\ result.val.source_info.start = result.val.source_info.end

\* ------------------------------------------------- contiguity of the spans
\* the position of the reader once n characters of the input are read
PosAt(n) == ReaderAfter(input, n).pos

\* C23: in a parsed Predicate the whitespace after `not` ends where the
\* span of the predicate function starts (both are at the start of the
\* predicate when it is not negated), the span of the predicate function
\* ends at the cursor on return, and the whitespace before a value starts
\* right after the keyword or operator and ends where the value starts.
C23_SpansContiguous ==
    (rule = "predicate" /\ result.ok) =>
        /\ result.val.space0.source_info.end =
              result.val.predicate_func.source_info.start
        /\ ~result.val.not =>
              /\ result.val.space0.source_info = SourceInfo(PosAt(0), PosAt(0))
              /\ result.val.predicate_func.source_info.start = PosAt(0)
        /\ result.val.not =>
              /\ result.val.space0.source_info.start = PosAt(3)
              /\ result.val.space0.source_info.end = PosAt(FuncStart)
              /\ FuncStart > 3
        /\ result.val.predicate_func.source_info.end = reader.pos
        /\ TakesValue(Parsed) =>
              /\ Parsed.space0.source_info.start = PosAt(KeywordEnd)
              /\ Parsed.space0.source_info.end = PosAt(ValueStart)
              /\ Parsed.value.encoded =
                    SubSeq(input, ValueStart + 1, reader.cursor)

\* `not equals true`: 1:4-1:5, 1:5-1:16 and 1:11-1:12
C23_Witness ==
    /\ rule = "predicate"
    /\ input = <<"n", "o", "t", " ", "e", "q", "u", "a", "l", "s", " ",
                 "t", "r", "u", "e">>
    /\ result.ok
    /\ result.val.not
    /\ result.val.space0.source_info = SourceInfo(Pos(1, 4), Pos(1, 5))
    /\ result.val.predicate_func.source_info = SourceInfo(Pos(1, 5), Pos(1, 16))
    /\ Parsed.space0.source_info = SourceInfo(Pos(1, 11), Pos(1, 12))

\* ------------------------------------------- the kinds without an argument
TypeForm(lit, kind, alt) == [lit |-> lit, kind |-> kind, alt |-> alt]

\* keyword, kind and place in the choice of each kind without an argument
TypeForms ==
    { TypeForm(<<"i", "s", "I", "n", "t", "e", "g", "e", "r">>, "IsInteger", 12),
      TypeForm(<<"i", "s", "F", "l", "o", "a", "t">>, "IsFloat", 13),
      TypeForm(<<"i", "s", "B", "o", "o", "l", "e", "a", "n">>, "IsBoolean", 14),
      TypeForm(<<"i", "s", "S", "t", "r", "i", "n", "g">>, "IsString", 15),
      TypeForm(<<"i", "s", "C", "o", "l", "l", "e", "c", "t", "i", "o", "n">>,
               "IsCollection", 16),
      TypeForm(<<"i", "s", "D", "a", "t", "e">>, "IsDate", 17),
      TypeForm(<<"e", "x", "i", "s", "t", "s">>, "Exist", 18),
      TypeForm(<<"i", "s", "E", "m", "p", "t", "y">>, "IsEmpty", 19) }

\* C24: each of the eight alternatives without an argument succeeds as soon
\* as its keyword is a prefix of the remaining input, whatever follows it,
\* consumes exactly the keyword and returns its kind without payload; when
\* the keyword is not there it fails recoverably with the cursor unmoved.
\* In the choice the same text gives that kind, at that alternative, with
\* the span of the keyword.
C24_ZeroArgumentKinds ==
    \A f \in TypeForms :
        /\ (rule = "alternative" /\ arg = {f.alt}) =>
              IF HasAt(input, 0, f.lit)
              THEN /\ result = Ok([kind |-> f.kind])
                   /\ reader = At(Len(f.lit))
                   /\ stderr = <<>>
              ELSE /\ IsRecoverable(result)
                   /\ reader = At(0)
        /\ (rule = "predicate_func" /\ HasAt(input, 0, f.lit)) =>
              /\ result = Ok([source_info |-> SourceInfo(Pos(1, 1), At(Len(f.lit)).pos),
                              value |-> [kind |-> f.kind]])
              /\ reader = At(Len(f.lit))
              /\ tried = f.alt

\* `isDate` directly followed by other characters: only the keyword is read
C24_Witness ==
    /\ rule = "alternative"
    /\ arg = {17}
    /\ HasAt(input, 0, <<"i", "s", "D", "a", "t", "e">>)
    /\ Len(input) > 6
    /\ input[7] # " "
    /\ result = Ok([kind |-> "IsDate"])
    /\ reader.cursor = 6

\* `exists` followed by a space and a value: the space is not read
C24_SpaceLeft ==
    /\ rule = "predicate_func"
    /\ HasAt(input, 0, <<"e", "x", "i", "s", "t", "s", " ">>)
    /\ result.ok
    /\ reader.cursor = 6

\* the keyword is not there: the alternative fails and reads nothing
C24_Refused ==
    /\ rule = "alternative"
    /\ arg = {19}
    /\ HasAt(input, 0, <<"i", "s", "D", "a", "t", "e">>)
    /\ IsRecoverable(result)
    /\ reader.cursor = 0

\* ------------------------------------------------- notEquals and negation
NotEqualsWord == <<"n", "o", "t", "E", "q", "u", "a", "l", "s">>
EqualsWord == <<"e", "q", "u", "a", "l", "s">>

\* `not` and at least one blank open the text
NotAndBlank == HasAt(input, 0, Not) /\ BlanksAt(input, 3) >= 1

\* the spelling is followed by a blank and the text of a value
ValueFollows == Gap >= 1 /\ KindOfText(ValueText) \in ValueKinds

\* C25: `notEquals v` is parsed as a predicate that is not negated, of kind
\* NotEqual in its word form, the `not` at its start being given back so
\* that the predicate function starts at the start of the text; `not
\* equals v` is parsed as a negated predicate of kind Equal; and no text is
\* parsed as negated unless at least one blank follows its `not`.
C25_NotEqualsIsNoNegation ==
    /\ rule = "predicate" =>
          /\ HasAt(input, 0, NotEqualsWord) =>
                /\ ValueFollows => result.ok
                /\ result.ok =>
                      /\ ~result.val.not
                      /\ result.val.space0 = Whitespace(<<>>, Pos(1, 1), Pos(1, 1))
                      /\ result.val.predicate_func.source_info.start = Pos(1, 1)
                      /\ Parsed.kind = "NotEqual"
                      /\ ~Parsed.operator
          /\ (NotAndBlank /\ HasAt(input, FuncStart, EqualsWord)) =>
                /\ ValueFollows => result.ok
                /\ result.ok =>
                      /\ result.val.not
                      /\ result.val.space0.value = SubSeq(input, 4, FuncStart)
                      /\ Parsed.kind = "Equal"
                      /\ ~Parsed.operator
          /\ (result.ok /\ result.val.not) => NotAndBlank
    /\ (rule = "predicate_not" /\ result.not) => NotAndBlank

\* `notEquals true`: not negated, NotEqual
C25_Witness ==
    /\ rule = "predicate"
    /\ input = NotEqualsWord \o <<" ", "t", "r", "u", "e">>
    /\ result.ok
    /\ ~result.val.not
    /\ Parsed.kind = "NotEqual"

\* `not equals true`: negated, Equal
C25_Negated ==
    /\ rule = "predicate"
    /\ input = Not \o <<" ">> \o EqualsWord \o <<" ", "t", "r", "u", "e">>
    /\ result.ok
    /\ result.val.not
    /\ Parsed.kind = "Equal"

\* `not notEquals true`: negated, NotEqual
C25_NegatedNotEquals ==
    /\ rule = "predicate"
    /\ input = Not \o <<" ">> \o NotEqualsWord \o <<" ", "t", "r", "u", "e">>
    /\ result.ok
    /\ result.val.not
    /\ Parsed.kind = "NotEqual"

\* --------------------------------------------- vocabulary of refused reports
\* an unsigned number: digits, after a plus sign or not
DigitsOnly(s) == s # <<>> /\ \A i \in 1..Len(s) : s[i] \in Digits
Unsigned(s) == DigitsOnly(s) \/ (s # <<>> /\ s[1] = "+" /\ DigitsOnly(Tail(s)))

\* `..` at the k-th character of the text
DotsAt(s, k) == k + 1 <= Len(s) /\ s[k] = "." /\ s[k + 1] = "."

\* the line is of the form <number>..<number>
HeaderForm(h) ==
    \E k \in 1..Len(h) :
        /\ DotsAt(h, k)
        /\ Unsigned(SubSeq(h, 1, k - 1))
        /\ Unsigned(SubSeq(h, k + 2, Len(h)))

\* the line starts with a number, `..` and a number that runs to the end of
\* the line or to the next `..`
HeaderRead(h) ==
    \E k \in 1..Len(h), e \in 1..Len(h) :
        /\ DotsAt(h, k)
        /\ \A j \in 1..(k - 1) : ~DotsAt(h, j)
        /\ Unsigned(SubSeq(h, 1, k - 1))
        /\ e >= k + 2
        /\ Unsigned(SubSeq(h, k + 2, e))
        /\ \A j \in (k + 2)..e : ~DotsAt(h, j)
        /\ e = Len(h) \/ DotsAt(h, e + 1)

\* a line that is not blank
IsResultLine(l) == trim(l) # <<>>

\* the lines after the first that are not blank, trimmed
ResultLinesOf(f) ==
    LET kept == SelectSeq(Tail(lines(f)), IsResultLine) IN
    [i \in 1..Len(kept) |-> trim(kept[i])]

\* a result line of the report is rejected by the testcase parser
LineRejected(f) ==
    \E i \in 1..Len(ResultLinesOf(f)) : ~Testcase_parse(ResultLinesOf(f)[i]).ok

\* the report exists and has a first line
HasHeader(f) == f # None /\ f # <<>>

\* the testcases of the result lines of a report, in order
Listed(f) ==
    IF ~HasHeader(f) THEN <<>>
    ELSE [i \in 1..Len(ResultLinesOf(f)) |-> Testcase_parse(ResultLinesOf(f)[i]).val]

\* the list given to the call that was just made
NewlyGiven == SubSeq(given', Len(given) + 1, Len(given'))

\* the call just made failed and left the file as it was
FailedIntact == ~outcome'.ok /\ file' = file

\* the call just made wrote the testcases of the file and the new ones
Rewritten ==
    /\ outcome'.ok
    /\ file' = <<"1", ".", ".">> \o format_usize(Len(Listed(file) \o NewlyGiven))
                  \o <<"\n">> \o ResultLines(Listed(file) \o NewlyGiven, 1)

\* C26 as stated: a call of write_report on a file whose first line is not
\* of the form <number>..<number>, or that has a result line the testcase
\* parser rejects, returns an error and leaves the file as it was.
C26_FailsUnlessNumberDotsNumber ==
    [][(/\ calls' = calls + 1
        /\ HasHeader(file)
        /\ ~HeaderForm(lines(file)[1]) \/ LineRejected(file)) => FailedIntact]_vars

\* what the calls do: on a file whose first line does not start with a
\* number, `..` and a number that runs to the end of the line or to a
\* second `..`, or that has a result line the testcase parser rejects, the
\* call returns an error and leaves the file exactly as it was; on every
\* other file it succeeds and writes the testcases of the result lines,
\* blank lines and blanks around a line left out, whatever the numbers of
\* the header, followed by the new ones.
C26_FailureLeavesReport ==
    [][calls' = calls + 1 =>
          IF HasHeader(file) /\ (~HeaderRead(lines(file)[1]) \/ LineRejected(file))
          THEN FailedIntact
          ELSE Rewritten]_vars

\* a call on the report with the header `x..1` failed on the header and the
\* file is as it was
C26_HeaderRefused ==
    /\ calls = 1
    /\ file = <<"x", ".", ".", "1", "\n">> \o LineA
    /\ outcome = InvalidHeader(<<"x", ".", ".", "1">>)

\* a call on the report with the line `foo` failed on that line
C26_LineRefused ==
    /\ calls = 1
    /\ file = <<"1", ".", ".", "2", "\n">> \o LineA \o <<"f", "o", "o", "\n">>
    /\ outcome = InvalidLine(<<"f", "o", "o">>)

\* a call with no new testcase on the report headed `5..9` wrote one line
C26_HeaderNotCompared ==
    /\ calls = 1
    /\ given = <<Testcase(<<"a">>, TRUE)>>
    /\ outcome.ok
    /\ file = <<"1", ".", ".", "1", "\n">> \o LineA

====
